---------------------------- MODULE Spec2Model ----------------------------
(***************************************************************************)
(* PR Pulse: the status reductions of the GitHub provider                  *)
(* (src/lib/providers/base-provider.js) and the polling service worker     *)
(* (src/unnamed/part_002) with the storage wrapper it persists through.    *)
(*                                                                         *)
(* Ten specifications share the module:                                    *)
(*   SpecChecks     - getCheckStatus applied to bounded check-run sequences*)
(*   SpecReviews    - getReviewStatus applied to bounded review sequences  *)
(*   SpecList       - one getMyPullRequests / getReviewRequests call       *)
(*   Spec           - the service worker: triggers, polling cycles, storage*)
(*   SpecSettings   - the worker's settings messages and the settings page *)
(*   SpecPopup      - the popup rendering the PR cards of its current tab  *)
(*   SpecOnboarding - the onboarding wizard up to the end of completeSetup *)
(*   SpecCalls      - the two reductions called repeatedly on one provider *)
(*   SpecCycles     - polling cycles under fair scheduling of the handlers *)
(*   SpecMessages   - the worker's message listener and its responses      *)
(***************************************************************************)
EXTENDS Integers, Sequences, FiniteSets, TLC

VARIABLES
    check_runs,         \* data.check_runs of the check-runs response
    headSha,            \* whether pr.head.sha is present in the PR response
    checkResult,        \* what getCheckStatus returned, None before the call
    reviews,            \* the reviews response handed to getReviewStatus
    requestedReviewers, \* the requestedReviewers argument of getReviewStatus
    reviewResult,       \* what getReviewStatus returned, None before the call
    provider,           \* providerManager.provider
    storedProvider,     \* chrome.storage.local 'provider'
    pullRequests,       \* chrome.storage.local 'pullRequests'
    settings,           \* chrome.storage.local 'settings' merged over the defaults
    alarm,              \* period of the 'pr-poll' alarm in ms, 0 when none is armed
    badge,              \* text of the extension badge
    tasks,              \* the running invocations of the worker's handlers
    cycles,             \* number of triggers so far; each starts one handler
    failed,             \* the cycles that ended in the catch block (history)
    now,                \* Date.now()
    listCall,           \* the list operation under way, "none" before the call
    listPc,             \* where that call stands: idle, search, items, resolved, rejected
    items,              \* data.items of the search response
    slots,              \* per item of data.items, the state of its map callback
    settled,            \* the item indices in the order their callbacks returned (history)
    prs,                \* the array the list operation resolved with
    cards,              \* the PRs of the popup's current tab
    dots,               \* the status-dot class of each rendered card
    currentStep,        \* the wizard's currentStep
    completedSteps,     \* the progress steps carrying the class 'completed'
    providerData,       \* the wizard's providerData, Null until a token was validated
    onboardingSettings, \* the wizard's settings object
    setup,              \* where completeSetup stands, and what its getSettings read
    errorMessage,       \* the text showError put on the page, "" when hidden
    sentMessages,       \* the messages the wizard sent to the service worker (history)
    callLog,            \* the reduction calls made so far: arguments and result (history)
    response            \* the last call of a sendResponse: the message answered, the value

checkVars  == <<check_runs, headSha, checkResult>>
reviewVars == <<reviews, requestedReviewers, reviewResult>>
workerVars == <<provider, storedProvider, pullRequests, settings, alarm, badge,
                tasks, cycles, failed, now>>
listVars   == <<listCall, listPc, items, slots, settled, prs>>
popupVars  == <<cards, dots>>
wizardVars == <<currentStep, completedSteps, providerData, onboardingSettings, setup,
                errorMessage, sentMessages>>
callVars   == <<callLog>>
responseVars == <<response>>
vars == <<checkVars, reviewVars, workerVars, listVars, popupVars, wizardVars, callVars, responseVars>>

\* absent values, typed like the values they stand in for
NoResult == [status |-> "none"]
NoConfig == [type |-> "none"]
NoProvider == [name |-> "none"]
Threw == [name |-> "throw"]
NoSnapshot == [absent |-> TRUE]

\* ------------------------------------------------------------------ bounds
MaxRuns == 3
MaxReviews == 3
MaxTasks == 2       \* handler invocations running at once
MaxCycles == 2      \* triggers of a polling cycle in one behaviour
MaxPRs == 1         \* items in one search result
MaxItems == 2       \* items in the search response of one list call
MaxCards == 2       \* PR cards in the popup's list
MaxCalls == 3       \* calls of the two reductions in one behaviour

\* ------------------------------------------------- sequences, as JS arrays
Some(s, P(_)) == \E i \in 1..Len(s) : P(s[i])
Every(s, P(_)) == \A i \in 1..Len(s) : P(s[i])
Includes(s, x) == \E i \in 1..Len(s) : s[i] = x

SeqsUpTo(S, n) == UNION {[1..k -> S] : k \in 0..n}

\* =================================================================
\* getCheckStatus
\* =================================================================
RunStatuses == {"queued", "in_progress", "completed"}
RunConclusions == {"null", "success", "failure", "neutral", "cancelled", "skipped",
                   "timed_out", "action_required", "stale", "startup_failure"}
RunNames == {"ci"}
CheckRuns == [name : RunNames, status : RunStatuses, conclusion : RunConclusions]

failureConclusions ==
    {"failure", "timed_out", "cancelled", "startup_failure", "action_required"}
successConclusions == {"success", "skipped", "neutral"}

IsFailureRun(d) == d.conclusion \in failureConclusions

IsCompleteRunAlways(d) == TRUE

IsCompleteRun(d) == d.status = "completed"

IsSuccessRunAnyNonFailure(d) == d.conclusion \notin failureConclusions

IsSuccessRun(d) == d.conclusion \in successConclusions

\* the reduction once the details are known to be non-empty
CheckOverallNoFailFast(details) ==
    IF Every(details, IsCompleteRun) /\ Every(details, IsSuccessRun)
    THEN "success" ELSE "pending"

CheckOverall(details) ==
    IF Some(details, IsFailureRun) THEN "failure"
    ELSE IF Every(details, IsCompleteRun)
         THEN (IF Every(details, IsSuccessRun) THEN "success" ELSE "pending")
         ELSE "pending"

GetCheckStatusNoEmptyCase(sha, runs) ==
    IF ~sha THEN [status |-> "unknown", details |-> <<>>]
    ELSE [status |-> CheckOverall(runs), details |-> runs]

GetCheckStatusKeepingSuccess(sha, runs) ==
    IF checkResult.status = "success" THEN checkResult
    ELSE IF ~sha \/ Len(runs) = 0 THEN [status |-> "unknown", details |-> <<>>]
    ELSE [status |-> CheckOverall(runs), details |-> runs]

GetCheckStatus(sha, runs) ==
    IF ~sha THEN [status |-> "unknown", details |-> <<>>]
    ELSE LET details == [i \in 1..Len(runs) |->
                            [name |-> runs[i].name, status |-> runs[i].status,
                             conclusion |-> runs[i].conclusion]]
         IN IF Len(details) = 0 THEN [status |-> "unknown", details |-> <<>>]
            ELSE [status |-> CheckOverall(details), details |-> details]

InitChecksIdle ==
    /\ check_runs = <<>>
    /\ headSha = FALSE
    /\ checkResult = NoResult

InitChecksInputs ==
    /\ check_runs \in SeqsUpTo(CheckRuns, MaxRuns)
    /\ headSha \in BOOLEAN
    /\ checkResult = NoResult

CallGetCheckStatus ==
    /\ checkResult = NoResult
    /\ checkResult' = GetCheckStatus(headSha, check_runs)
    /\ UNCHANGED <<check_runs, headSha, reviews, requestedReviewers, reviewResult>>
    /\ UNCHANGED <<provider, storedProvider, pullRequests, settings, alarm, badge,
                   tasks, cycles, failed, now>>
    /\ UNCHANGED <<listVars, popupVars, wizardVars, callVars, responseVars>>

\* =================================================================
\* getReviewStatus
\* =================================================================
Logins == {"a", "b"}
Avatars == {"img1", "img2"}
ReviewStates == {"APPROVED", "CHANGES_REQUESTED", "COMMENTED", "PENDING", "DISMISSED"}
Reviews == [login : Logins, avatarUrl : Avatars, state : ReviewStates]

\* requested_reviewers lists each user once
RequestedLists ==
    {s \in SeqsUpTo(Logins, Cardinality(Logins)) :
        \A i, j \in 1..Len(s) : i # j => s[i] # s[j]}

IsBindingCommentedCounts(review) == review.state # "PENDING"

IsBinding(review) == review.state # "PENDING" /\ review.state # "COMMENTED"

IsReRequestedNever(requested, login) == FALSE

IsReRequested(requested, login) == Includes(requested, login)

\* Map.prototype.set on a Map kept as its entries in insertion order
MapSetKeepFirst(m, entry) ==
    IF \E i \in 1..Len(m) : m[i].login = entry.login THEN m ELSE Append(m, entry)

MapSet(m, entry) ==
    IF \E i \in 1..Len(m) : m[i].login = entry.login
    THEN [i \in 1..Len(m) |-> IF m[i].login = entry.login THEN entry ELSE m[i]]
    ELSE Append(m, entry)

RECURSIVE ReviewerMapKeepingReRequested(_, _, _)
ReviewerMapKeepingReRequested(data, requested, m) ==
    IF data = <<>> THEN m
    ELSE LET review == Head(data)
         IN ReviewerMapKeepingReRequested(Tail(data), requested,
                IF IsBinding(review)
                THEN MapSet(m, [login |-> review.login,
                                avatarUrl |-> review.avatarUrl,
                                state |-> review.state])
                ELSE m)

RECURSIVE ReviewerMap(_, _, _)
ReviewerMap(data, requested, m) ==
    IF data = <<>> THEN m
    ELSE LET review == Head(data)
         IN ReviewerMap(Tail(data), requested,
                IF IsBinding(review) /\ ~IsReRequested(requested, review.login)
                THEN MapSet(m, [login |-> review.login,
                                avatarUrl |-> review.avatarUrl,
                                state |-> review.state])
                ELSE m)

IsChangesRequested(r) == r.state = "CHANGES_REQUESTED"
IsApproved(r) == r.state = "APPROVED"

ReviewOverallIgnoringRequests(reviewers, requested) ==
    IF Len(reviewers) > 0
    THEN (IF Some(reviewers, IsChangesRequested) THEN "changes_requested"
          ELSE IF Every(reviewers, IsApproved) THEN "approved" ELSE "pending")
    ELSE "pending"

ReviewOverallAnyApproved(reviewers, requested) ==
    IF Len(requested) > 0
    THEN (IF Some(reviewers, IsChangesRequested) THEN "changes_requested" ELSE "pending")
    ELSE IF Len(reviewers) > 0
         THEN (IF Some(reviewers, IsChangesRequested) THEN "changes_requested"
               ELSE IF Some(reviewers, IsApproved) THEN "approved" ELSE "pending")
         ELSE "pending"

ReviewOverall(reviewers, requested) ==
    IF Len(requested) > 0
    THEN (IF Some(reviewers, IsChangesRequested) THEN "changes_requested" ELSE "pending")
    ELSE IF Len(reviewers) > 0
         THEN (IF Some(reviewers, IsChangesRequested) THEN "changes_requested"
               ELSE IF Every(reviewers, IsApproved) THEN "approved" ELSE "pending")
         ELSE "pending"

GetReviewStatus(data, requested) ==
    LET reviewers == ReviewerMap(data, requested, <<>>)
    IN [status |-> ReviewOverall(reviewers, requested),
        reviewers |-> reviewers,
        pendingReviewers |-> requested]

InitReviewsIdle ==
    /\ reviews = <<>>
    /\ requestedReviewers = <<>>
    /\ reviewResult = NoResult

InitReviewsInputs ==
    /\ reviews \in SeqsUpTo(Reviews, MaxReviews)
    /\ requestedReviewers \in RequestedLists
    /\ reviewResult = NoResult

CallGetReviewStatus ==
    /\ reviewResult = NoResult
    /\ reviewResult' = GetReviewStatus(reviews, requestedReviewers)
    /\ UNCHANGED <<reviews, requestedReviewers, check_runs, headSha, checkResult>>
    /\ UNCHANGED <<provider, storedProvider, pullRequests, settings, alarm, badge,
                   tasks, cycles, failed, now>>
    /\ UNCHANGED <<listVars, popupVars, wizardVars, callVars, responseVars>>

\* =================================================================
\* getMyPullRequests / getReviewRequests: one list call
\* =================================================================
ListCalls == {"getMyPullRequests", "getReviewRequests"}

\* null, and an optional field of a response: <<>> when absent, <<v>> when present
Null == [null |-> TRUE]
OrElse(opt, default) == IF opt = <<>> THEN default ELSE opt[1]

\* the items of a search response, most recently updated first
IssueOf(k) ==
    [id |-> k, number |-> 10 + k, title |-> "PR " \o ToString(k),
     html_url |-> "https://github.com/o/r/pull/" \o ToString(10 + k),
     repository_url |-> <<"o/r">>, user |-> <<"octo">>, state |-> "open",
     created_at |-> k, updated_at |-> k]
SearchResults == {[i \in 1..n |-> IssueOf(n + 1 - i)] : n \in 0..MaxItems}

\* the responses of GET /repos/{repo}/pulls/{number} a list call may receive
PullResponses ==
    {[head |-> <<"feature">>, additions |-> <<5>>, deletions |-> <<2>>,
      changed_files |-> <<1>>, requested_reviewers |-> <<[login |-> "a"]>>],
     [head |-> <<>>, additions |-> <<>>, deletions |-> <<>>,
      changed_files |-> <<>>, requested_reviewers |-> <<>>]}

\* the check runs and the reviews a list call may receive for an item
ItemCheckRuns ==
    {<<[name |-> "ci", status |-> "completed", conclusion |-> "success"]>>,
     <<[name |-> "ci", status |-> "in_progress", conclusion |-> "null"]>>}
ItemReviews ==
    {<<>>, <<[login |-> "b", avatarUrl |-> "img1", state |-> "APPROVED"]>>}

\* a request: not issued, in flight, fulfilled with a value, rejected
Unissued == [st |-> "idle"]
InFlight == [st |-> "pending"]
Fulfilled(v) == [st |-> "fulfilled", value |-> v]
Rejected == [st |-> "rejected"]

GetPullRequestDetails(data) ==
    [branchName |-> OrElse(data.head, ""),
     changes |-> [additions |-> OrElse(data.additions, 0),
                  deletions |-> OrElse(data.deletions, 0),
                  filesChanged |-> OrElse(data.changed_files, 0)],
     requestedReviewers |->
        [i \in 1..Len(data.requested_reviewers) |-> data.requested_reviewers[i].login]]

\* #transformPullRequest reads head, additions, deletions and changed_files of its
\* second argument; the object getPullRequestDetails returns has none of them
DetailField(prDetails, field, default) ==
    IF field \in DOMAIN prDetails THEN OrElse(prDetails[field], default) ELSE default

TransformPullRequestChecksPending(issue, prDetails) ==
    [id |-> "github-" \o ToString(issue.id),
     provider |-> "github",
     title |-> issue.title,
     url |-> issue.html_url,
     repoFullName |-> OrElse(issue.repository_url, ""),
     branchName |-> DetailField(prDetails, "head", ""),
     author |-> OrElse(issue.user, ""),
     state |-> issue.state,
     changes |-> [additions |-> DetailField(prDetails, "additions", 0),
                  deletions |-> DetailField(prDetails, "deletions", 0),
                  filesChanged |-> DetailField(prDetails, "changed_files", 0)],
     checks |-> [status |-> "pending", details |-> <<>>],
     reviews |-> [status |-> "pending", reviewers |-> <<>>],
     createdAt |-> issue.created_at,
     updatedAt |-> issue.updated_at,
     _prNumber |-> issue.number]

TransformPullRequestIdByNumber(issue, prDetails) ==
    [TransformPullRequestChecksPending(issue, prDetails) EXCEPT
        !.id = "github-" \o ToString(issue.number),
        !.checks = [status |-> "unknown", details |-> <<>>]]

TransformPullRequest(issue, prDetails) ==
    [id |-> "github-" \o ToString(issue.id),
     provider |-> "github",
     title |-> issue.title,
     url |-> issue.html_url,
     repoFullName |-> OrElse(issue.repository_url, ""),
     branchName |-> DetailField(prDetails, "head", ""),
     author |-> OrElse(issue.user, ""),
     state |-> issue.state,
     changes |-> [additions |-> DetailField(prDetails, "additions", 0),
                  deletions |-> DetailField(prDetails, "deletions", 0),
                  filesChanged |-> DetailField(prDetails, "changed_files", 0)],
     checks |-> [status |-> "unknown", details |-> <<>>],
     reviews |-> [status |-> "pending", reviewers |-> <<>>],
     createdAt |-> issue.created_at,
     updatedAt |-> issue.updated_at,
     _prNumber |-> issue.number]

\* .catch(() => ({ status: 'unknown', details: [] })) on getCheckStatus
CatchCheckAsPending(promise) ==
    IF promise.st = "rejected" THEN [status |-> "pending", details |-> <<>>]
    ELSE promise.value

CatchCheck(promise) ==
    IF promise.st = "rejected" THEN [status |-> "unknown", details |-> <<>>]
    ELSE promise.value

\* .catch(() => ({ status: 'pending', reviewers: [] })) on getReviewStatus
CatchReview(promise) ==
    IF promise.st = "rejected" THEN [status |-> "pending", reviewers |-> <<>>]
    ELSE promise.value

\* the object the map callback returns from its try block
EnrichedPullRequest(issue, prDetails, checkStatus, reviewStatus) ==
    [TransformPullRequest(issue, prDetails) EXCEPT
        !.branchName = prDetails.branchName,
        !.changes = prDetails.changes,
        !.checks = checkStatus,
        !.reviews = reviewStatus]

\* the map callback of one item: awaiting the details (pc "detail"), awaiting
\* checks and reviews (pc "enrich"), returned (pc "done")
StartItemAllAtOnce(issue) ==
    [pc |-> "detail", detail |-> Null, checks |-> InFlight, reviews |-> InFlight,
     reviewArg |-> <<>>, pr |-> Null]

StartItem(issue) ==
    [pc |-> "detail", detail |-> Null, checks |-> Unissued, reviews |-> Unissued,
     reviewArg |-> <<>>, pr |-> Null]

\* the details arrived: getCheckStatus and getReviewStatus are called
AfterDetail(item, prDetails) ==
    [item EXCEPT !.pc = "enrich", !.detail = prDetails, !.checks = InFlight,
                 !.reviews = InFlight, !.reviewArg = prDetails.requestedReviewers]

\* the catch block of the map callback
AfterDetailError(item, issue) ==
    [item EXCEPT !.pc = "done", !.pr = TransformPullRequest(issue, Null)]

\* the inner Promise.all resolves once both of its promises have
AfterSubFetch(item, issue) ==
    IF item.checks.st = "pending" \/ item.reviews.st = "pending" THEN item
    ELSE [item EXCEPT !.pc = "done",
                      !.pr = EnrichedPullRequest(issue, item.detail,
                                                 CatchCheck(item.checks),
                                                 CatchReview(item.reviews))]

\* Promise.all over the mapped items keeps the items' positions
PromiseAllInSettlementOrder(s) == [i \in 1..Len(s) |-> s[settled[i]].pr]

PromiseAll(s) == [i \in 1..Len(s) |-> s[i].pr]

SettledAfter(i, item) == IF item.pc = "done" THEN Append(settled, i) ELSE settled

InitListIdle ==
    /\ listCall = "none"
    /\ listPc = "idle"
    /\ items = <<>>
    /\ slots = <<>>
    /\ settled = <<>>
    /\ prs = <<>>

CallList(op) ==
    /\ listPc = "idle"
    /\ listCall' = op
    /\ listPc' = "search"
    /\ UNCHANGED <<items, slots, settled, prs>>
    /\ UNCHANGED <<checkVars, reviewVars, workerVars, popupVars, wizardVars, callVars, responseVars>>

SearchResolves(result) ==
    /\ listPc = "search"
    /\ items' = result
    /\ slots' = [i \in 1..Len(result) |-> StartItem(result[i])]
    /\ listPc' = "items"
    /\ UNCHANGED <<listCall, settled, prs>>
    /\ UNCHANGED <<checkVars, reviewVars, workerVars, popupVars, wizardVars, callVars, responseVars>>

SearchRejects ==
    /\ listPc = "search"
    /\ listPc' = "rejected"
    /\ UNCHANGED <<listCall, items, slots, settled, prs>>
    /\ UNCHANGED <<checkVars, reviewVars, workerVars, popupVars, wizardVars, callVars, responseVars>>

DetailResolves(i, data) ==
    /\ listPc = "items"
    /\ slots[i].pc = "detail"
    /\ slots' = [slots EXCEPT ![i] = AfterDetail(@, GetPullRequestDetails(data))]
    /\ UNCHANGED <<listCall, listPc, items, settled, prs>>
    /\ UNCHANGED <<checkVars, reviewVars, workerVars, popupVars, wizardVars, callVars, responseVars>>

DetailRejects(i) ==
    /\ listPc = "items"
    /\ slots[i].pc = "detail"
    /\ slots' = [slots EXCEPT ![i] = AfterDetailError(@, items[i])]
    /\ settled' = Append(settled, i)
    /\ UNCHANGED <<listCall, listPc, items, prs>>
    /\ UNCHANGED <<checkVars, reviewVars, workerVars, popupVars, wizardVars, callVars, responseVars>>

CheckResolves(i, runs) ==
    /\ listPc = "items"
    /\ slots[i].checks.st = "pending"
    /\ LET item == AfterSubFetch(
                     [slots[i] EXCEPT !.checks = Fulfilled(GetCheckStatus(TRUE, runs))],
                     items[i])
       IN /\ slots' = [slots EXCEPT ![i] = item]
          /\ settled' = SettledAfter(i, item)
    /\ UNCHANGED <<listCall, listPc, items, prs>>
    /\ UNCHANGED <<checkVars, reviewVars, workerVars, popupVars, wizardVars, callVars, responseVars>>

CheckRejects(i) ==
    /\ listPc = "items"
    /\ slots[i].checks.st = "pending"
    /\ LET item == AfterSubFetch([slots[i] EXCEPT !.checks = Rejected], items[i])
       IN /\ slots' = [slots EXCEPT ![i] = item]
          /\ settled' = SettledAfter(i, item)
    /\ UNCHANGED <<listCall, listPc, items, prs>>
    /\ UNCHANGED <<checkVars, reviewVars, workerVars, popupVars, wizardVars, callVars, responseVars>>

ReviewResolves(i, data) ==
    /\ listPc = "items"
    /\ slots[i].reviews.st = "pending"
    /\ LET item == AfterSubFetch(
                     [slots[i] EXCEPT
                        !.reviews = Fulfilled(GetReviewStatus(data, slots[i].reviewArg))],
                     items[i])
       IN /\ slots' = [slots EXCEPT ![i] = item]
          /\ settled' = SettledAfter(i, item)
    /\ UNCHANGED <<listCall, listPc, items, prs>>
    /\ UNCHANGED <<checkVars, reviewVars, workerVars, popupVars, wizardVars, callVars, responseVars>>

ReviewRejects(i) ==
    /\ listPc = "items"
    /\ slots[i].reviews.st = "pending"
    /\ LET item == AfterSubFetch([slots[i] EXCEPT !.reviews = Rejected], items[i])
       IN /\ slots' = [slots EXCEPT ![i] = item]
          /\ settled' = SettledAfter(i, item)
    /\ UNCHANGED <<listCall, listPc, items, prs>>
    /\ UNCHANGED <<checkVars, reviewVars, workerVars, popupVars, wizardVars, callVars, responseVars>>

\* every callback has returned: the list operation resolves with the array
ListReturns ==
    /\ listPc = "items"
    /\ \A i \in 1..Len(slots) : slots[i].pc = "done"
    /\ prs' = PromiseAll(slots)
    /\ listPc' = "resolved"
    /\ UNCHANGED <<listCall, items, slots, settled>>
    /\ UNCHANGED <<checkVars, reviewVars, workerVars, popupVars, wizardVars, callVars, responseVars>>

\* =================================================================
\* The popup: renderPRList / createPRCard
\* =================================================================
CardCheckStatuses == {"success", "failure", "pending", "unknown"}
CardReviewStatuses == {"approved", "changes_requested", "pending"}
CardPRs == [checks : [status : CardCheckStatuses], reviews : [status : CardReviewStatuses]]

ChecksOk(checksStatus) ==
    \/ checksStatus = ""
    \/ checksStatus = "success"
    \/ checksStatus = "neutral"
    \/ checksStatus = "unknown"

ReviewOk(reviewStatus) == reviewStatus = "approved"

StatusDotRedOnFailureOnly(pr) ==
    IF ChecksOk(pr.checks.status) /\ ReviewOk(pr.reviews.status) THEN "status-green"
    ELSE IF pr.checks.status = "failure" /\ ~ReviewOk(pr.reviews.status)
         THEN "status-red"
         ELSE "status-yellow"

StatusDot(pr) ==
    IF ChecksOk(pr.checks.status) /\ ReviewOk(pr.reviews.status) THEN "status-green"
    ELSE IF ~ChecksOk(pr.checks.status) /\ ~ReviewOk(pr.reviews.status)
         THEN "status-red"
         ELSE "status-yellow"

InitPopupIdle ==
    /\ cards = <<>>
    /\ dots = <<>>

InitPopupInputs ==
    /\ cards \in SeqsUpTo(CardPRs, MaxCards)
    /\ dots = <<>>

\* renderPRList creates one card per PR of the current tab
RenderPRList ==
    /\ dots = <<>>
    /\ cards # <<>>
    /\ dots' = [i \in 1..Len(cards) |-> StatusDot(cards[i])]
    /\ UNCHANGED cards
    /\ UNCHANGED <<checkVars, reviewVars, workerVars, listVars, wizardVars, callVars, responseVars>>

\* =================================================================
\* The service worker
\* =================================================================
\* A storage read is taken when its callback runs; a storage write and
\* chrome.alarms.clear take effect when they are issued (the browser serves one
\* context's requests in order).  Between two awaits a handler runs alone.

CycleIds == 1..MaxCycles
ListSizes == 0..MaxPRs

DEFAULT_pinnedTab == "myPRs"
DEFAULT_pollingIntervalMs == 600000
DEFAULT_SETTINGS ==
    [pinnedTab |-> DEFAULT_pinnedTab, pollingIntervalMs |-> DEFAULT_pollingIntervalMs]

\* a stored configuration; the tokens are those of two accounts
Tokens == {0, 1}
SavedConfig(token) == [type |-> "github", token |-> token]
GitHubConfig == SavedConfig(0)

\* a list a list operation returned: which cycle asked for it, and its length
EmptyList == [by |-> 0, n |-> 0]
ListResults == [by : CycleIds, n : ListSizes]

\* the promise of a list operation
NotCalled == [st |-> "idle", by |-> 0, n |-> 0]
Pending == [st |-> "pending", by |-> 0, n |-> 0]
Resolved(list) == [st |-> "resolved", by |-> list.by, n |-> list.n]
ListOf(promise) == [by |-> promise.by, n |-> promise.n]

\* settings objects; a message may carry only some of the keys
EmptySettings == [key \in {} |-> 0]
Merge(current, partial) ==
    [key \in DOMAIN current \cup DOMAIN partial |->
        IF key \in DOMAIN partial THEN partial[key] ELSE current[key]]

\* ---- the message listener
\* the message types handleMessage has a case for
MessageTypes ==
    {"PROVIDER_CONFIGURED", "REFRESH_PRS", "GET_PRS", "UPDATE_SETTINGS", "SETTINGS_UPDATED"}

NoResponse == [to |-> 0, value |-> "none"]
InitNoResponse == response = NoResponse

\* handleMessage(message).then(sendResponse): when the step just taken was the
\* last of a message's handler, sendResponse is called with what it returned
SendResponse(task) ==
    response' =
        IF task.kind \in MessageTypes /\ \A next \in tasks' : next.cycle # task.cycle
        THEN [to |-> task.cycle,
              value |-> IF task.kind = "GET_PRS" THEN "prData" ELSE "success"]
        ELSE response

\* a handler invocation; cycle numbers the triggers (0 for the start of the
\* worker), msg is message.settings and read what its storage.getSettings returned
NewTask(kind, pc, cycle) ==
    [kind |-> kind, pc |-> pc, cycle |-> cycle, my |-> NotCalled, rr |-> NotCalled,
     interval |-> 0, msg |-> EmptySettings, read |-> EmptySettings,
     adapter |-> NoProvider]
Ended == NewTask("none", "ended", 0)

\* tasks once task has run to its next await (or to its end)
Continue(task, next) ==
    IF next = Ended THEN tasks \ {task} ELSE (tasks \ {task}) \cup {next}

CanTrigger == Cardinality(tasks) < MaxTasks /\ cycles < MaxCycles

\* ---- storage.js
GetPullRequests(store) ==
    IF store = NoSnapshot
    THEN [myPRs |-> EmptyList, reviewRequests |-> EmptyList, lastFetched |-> 0]
    ELSE store

SetPullRequestsKeepingReviewRequests(store, data, time) ==
    [myPRs |-> data.myPRs,
     reviewRequests |-> GetPullRequests(store).reviewRequests,
     lastFetched |-> time]

SetPullRequests(store, data, time) ==
    [myPRs |-> data.myPRs, reviewRequests |-> data.reviewRequests, lastFetched |-> time]

\* ---- provider-manager.js
CreateProvider(config) ==
    IF config.type = "github" THEN [name |-> "github", token |-> config.token] ELSE Threw

HasProvider(p) == p # NoProvider

FetchAllPullRequests(my, rr) == [myPRs |-> my, reviewRequests |-> rr]

\* ---- service worker
\* initializeProvider once storage.getProvider has answered: the provider it leaves
InitializeProvider(config, current) ==
    IF config # NoConfig THEN CreateProvider(config) ELSE current

\* fetchAndCachePRs up to its first await
BeginFetchBackingOff(task, p) ==
    IF HasProvider(p) /\ failed = {}
    THEN [task EXCEPT !.pc = "fetch", !.my = Pending, !.rr = Pending, !.adapter = p]
    ELSE [task EXCEPT !.pc = "fc_init"]

BeginFetch(task, p) ==
    IF HasProvider(p)
    THEN [task EXCEPT !.pc = "fetch", !.my = Pending, !.rr = Pending, !.adapter = p]
    ELSE [task EXCEPT !.pc = "fc_init"]

\* what the handler does once fetchAndCachePRs has returned
AfterFetchEndsHandler(task) == Ended

AfterFetch(task) ==
    IF task.kind = "PROVIDER_CONFIGURED"
    THEN [task EXCEPT !.pc = "sa_settings", !.my = NotCalled, !.rr = NotCalled,
                      !.adapter = NoProvider]
    ELSE Ended

\* the catch block of fetchAndCachePRs: it logs, the snapshot stays
CatchFetchErrorClearing(store) == NoSnapshot

CatchFetchError(store) == store

BadgeCount(pinnedTab, data) ==
    IF pinnedTab = "myPRs" THEN data.myPRs.n ELSE data.reviewRequests.n

BadgeText(count) == IF count > 0 THEN ToString(count) ELSE ""

Max(a, b) == IF a >= b THEN a ELSE b

\* periodInMinutes of setupPollingAlarm, in ms
AlarmPeriodNoMinimum(pollingIntervalMs) ==
    IF pollingIntervalMs # 0 THEN pollingIntervalMs ELSE 60000

AlarmPeriod(pollingIntervalMs) ==
    Max(60000, IF pollingIntervalMs # 0 THEN pollingIntervalMs ELSE 60000)

InitWorkerIdle ==
    /\ provider = NoProvider
    /\ storedProvider = NoConfig
    /\ pullRequests = NoSnapshot
    /\ settings = DEFAULT_SETTINGS
    /\ alarm = 0
    /\ badge = ""
    /\ tasks = {}
    /\ cycles = 0
    /\ failed = {}
    /\ now = 1

\* the worker starts: initializeProvider().then(setupPollingAlarm) is under way
InitWorker ==
    /\ provider = NoProvider
    /\ storedProvider \in {NoConfig, GitHubConfig}
    /\ pullRequests = NoSnapshot
    /\ settings = DEFAULT_SETTINGS
    /\ alarm = 0
    /\ badge = ""
    /\ tasks = {NewTask("startup", "s_init", 0)}
    /\ cycles = 0
    /\ failed = {}
    /\ now = 1

\* ---- triggers
\* chrome.alarms.onAlarm
AlarmFires ==
    /\ alarm > 0
    /\ CanTrigger
    /\ tasks' = tasks \cup {BeginFetch(NewTask("alarm", "called", cycles + 1), provider)}
    /\ cycles' = cycles + 1
    /\ UNCHANGED <<provider, storedProvider, pullRequests, settings, alarm, badge,
                   failed, now>>
    /\ UNCHANGED <<checkVars, reviewVars, listVars, popupVars, wizardVars, callVars, responseVars>>

\* the popup's refresh button: REFRESH_PRS, sent only when a provider is stored
RefreshRequested ==
    /\ storedProvider # NoConfig
    /\ CanTrigger
    /\ tasks' = tasks \cup
                   {BeginFetch(NewTask("REFRESH_PRS", "called", cycles + 1), provider)}
    /\ cycles' = cycles + 1
    /\ UNCHANGED <<provider, storedProvider, pullRequests, settings, alarm, badge,
                   failed, now>>
    /\ UNCHANGED <<checkVars, reviewVars, listVars, popupVars, wizardVars, callVars, responseVars>>

\* the settings page saves a token and sends PROVIDER_CONFIGURED
TokenSaved(token) ==
    /\ CanTrigger
    /\ storedProvider' = SavedConfig(token)
    /\ tasks' = tasks \cup {NewTask("PROVIDER_CONFIGURED", "h_init", cycles + 1)}
    /\ cycles' = cycles + 1
    /\ UNCHANGED <<provider, pullRequests, settings, alarm, badge, failed, now>>
    /\ UNCHANGED <<checkVars, reviewVars, listVars, popupVars, wizardVars, callVars, responseVars>>

ResetAllCancellingCycles ==
    /\ storedProvider # NoConfig \/ pullRequests # NoSnapshot
    /\ storedProvider' = NoConfig
    /\ pullRequests' = NoSnapshot
    /\ settings' = DEFAULT_SETTINGS
    /\ tasks' = {t \in tasks : t.pc \notin {"fetch", "badge"}}
    /\ UNCHANGED <<provider, alarm, badge, cycles, failed, now>>
    /\ UNCHANGED <<checkVars, reviewVars, listVars, popupVars, wizardVars, callVars, responseVars>>

\* the settings page's reset button: storage.clearAll
ResetAll ==
    /\ storedProvider # NoConfig \/ pullRequests # NoSnapshot
    /\ storedProvider' = NoConfig
    /\ pullRequests' = NoSnapshot
    /\ settings' = DEFAULT_SETTINGS
    /\ UNCHANGED <<provider, alarm, badge, tasks, cycles, failed, now>>
    /\ UNCHANGED <<checkVars, reviewVars, listVars, popupVars, wizardVars, callVars, responseVars>>

\* ---- steps of a running handler
\* handleMessage PROVIDER_CONFIGURED: initializeProvider has read the stored provider;
\* fetchAndCachePRs is called next.  When createProvider throws, the promise of
\* handleMessage rejects: the listener has no rejection handler, sendResponse is
\* not called
ConfiguredInitDone(task) ==
    /\ task.pc = "h_init"
    /\ LET p == InitializeProvider(storedProvider, provider)
       IN IF p = Threw
          THEN /\ tasks' = Continue(task, Ended)
               /\ UNCHANGED provider
          ELSE /\ provider' = p
               /\ tasks' = Continue(task, BeginFetch(task, p))
    /\ UNCHANGED <<storedProvider, pullRequests, settings, alarm, badge, cycles,
                   failed, now>>
    /\ UNCHANGED <<checkVars, reviewVars, listVars, popupVars, wizardVars, callVars>>
    /\ UNCHANGED response

\* worker start: initializeProvider has read the stored provider; then() runs
\* setupPollingAlarm
StartupInitDone(task) ==
    /\ task.pc = "s_init"
    /\ LET p == InitializeProvider(storedProvider, provider)
       IN IF p = Threw
          THEN /\ tasks' = Continue(task, Ended)
               /\ UNCHANGED provider
          ELSE /\ provider' = p
               /\ tasks' = Continue(task, [task EXCEPT !.pc = "sa_settings"])
    /\ UNCHANGED <<storedProvider, pullRequests, settings, alarm, badge, cycles,
                   failed, now>>
    /\ UNCHANGED <<checkVars, reviewVars, listVars, popupVars, wizardVars, callVars>>
    /\ SendResponse(task)

\* fetchAndCachePRs had no provider: its initializeProvider has read the stored one
FetchInitDone(task) ==
    /\ task.pc = "fc_init"
    /\ IF storedProvider = NoConfig
       THEN \* 'No provider configured, skipping fetch'
            /\ tasks' = Continue(task, AfterFetch(task))
            /\ UNCHANGED <<provider, pullRequests, failed>>
       ELSE LET p == InitializeProvider(storedProvider, provider)
            IN IF p = Threw
               THEN /\ tasks' = Continue(task, AfterFetch(task))
                    /\ pullRequests' = CatchFetchError(pullRequests)
                    /\ failed' = failed \cup {task.cycle}
                    /\ UNCHANGED provider
               ELSE /\ provider' = p
                    /\ tasks' = Continue(task, BeginFetch(task, p))
                    /\ UNCHANGED <<pullRequests, failed>>
    /\ UNCHANGED <<storedProvider, settings, alarm, badge, cycles, now>>
    /\ UNCHANGED <<checkVars, reviewVars, listVars, popupVars, wizardVars, callVars>>
    /\ SendResponse(task)

\* one list operation of the cycle resolves with n items; when it is the second,
\* Promise.all resolves and storage.setPullRequests(data) is issued.  The write's
\* callback only goes on to ask for the settings (updateBadgeFromSettings), which no
\* other handler can tell from the write itself, so the cycle next waits in "badge"
ListResolves(task, which, n) ==
    /\ task.pc = "fetch"
    /\ LET result == Resolved([by |-> task.cycle, n |-> n])
           my == IF which = "my" THEN result ELSE task.my
           rr == IF which = "rr" THEN result ELSE task.rr
       IN /\ (IF which = "my" THEN task.my ELSE task.rr) = Pending
          /\ IF my # Pending /\ rr # Pending
             THEN /\ tasks' = Continue(task, [task EXCEPT !.my = my, !.rr = rr,
                                                          !.pc = "badge"])
                  /\ pullRequests' =
                        SetPullRequests(pullRequests,
                                        FetchAllPullRequests(ListOf(my), ListOf(rr)), now)
                  /\ now' = now + 1
             ELSE /\ tasks' = Continue(task, [task EXCEPT !.my = my, !.rr = rr])
                  /\ UNCHANGED <<pullRequests, now>>
    /\ UNCHANGED <<provider, storedProvider, settings, alarm, badge, cycles, failed>>
    /\ UNCHANGED <<checkVars, reviewVars, listVars, popupVars, wizardVars, callVars>>
    /\ SendResponse(task)

\* one list operation rejects (its search request failed): Promise.all rejects and
\* the catch block of fetchAndCachePRs runs
ListRejects(task, which) ==
    /\ task.pc = "fetch"
    /\ (IF which = "my" THEN task.my ELSE task.rr) = Pending
    /\ tasks' = Continue(task, AfterFetch(task))
    /\ pullRequests' = CatchFetchError(pullRequests)
    /\ failed' = failed \cup {task.cycle}
    /\ UNCHANGED <<provider, storedProvider, settings, alarm, badge, cycles, now>>
    /\ UNCHANGED <<checkVars, reviewVars, listVars, popupVars, wizardVars, callVars>>
    /\ SendResponse(task)

\* storage.getSettings has answered: updateBadge, and fetchAndCachePRs returns
BadgeDone(task) ==
    /\ task.pc = "badge"
    /\ badge' = BadgeText(BadgeCount(settings.pinnedTab,
                                     FetchAllPullRequests(ListOf(task.my),
                                                          ListOf(task.rr))))
    /\ tasks' = Continue(task, AfterFetch(task))
    /\ UNCHANGED <<provider, storedProvider, pullRequests, settings, alarm, cycles,
                   failed, now>>
    /\ UNCHANGED <<checkVars, reviewVars, listVars, popupVars, wizardVars, callVars>>
    /\ SendResponse(task)

\* setupPollingAlarm: storage.getSettings has answered, chrome.alarms.clear is issued
AlarmSettingsDone(task) ==
    /\ task.pc = "sa_settings"
    /\ tasks' = Continue(task, [task EXCEPT !.pc = "sa_clear",
                                            !.interval = settings.pollingIntervalMs])
    /\ alarm' = 0
    /\ UNCHANGED <<provider, storedProvider, pullRequests, settings, badge, cycles,
                   failed, now>>
    /\ UNCHANGED <<checkVars, reviewVars, listVars, popupVars, wizardVars, callVars>>
    /\ SendResponse(task)

\* setupPollingAlarm: the alarm is cleared, chrome.alarms.create; the handler ends
AlarmClearDone(task) ==
    /\ task.pc = "sa_clear"
    /\ alarm' = AlarmPeriod(task.interval)
    /\ tasks' = Continue(task, Ended)
    /\ UNCHANGED <<provider, storedProvider, pullRequests, settings, badge, cycles,
                   failed, now>>
    /\ UNCHANGED <<checkVars, reviewVars, listVars, popupVars, wizardVars, callVars>>
    /\ SendResponse(task)

\* ---- settings messages
PinnedTabs == {"myPRs", "reviewRequests"}

\* message.settings of the UPDATE_SETTINGS messages considered
SettingsMessages ==
    {[pollingIntervalMs |-> 120000], [pollingIntervalMs |-> 30000],
     [pinnedTab |-> "reviewRequests"]}

\* if (message.settings.pollingIntervalMs), if (message.settings?.pinnedTab)
HasInterval(partial) ==
    "pollingIntervalMs" \in DOMAIN partial /\ partial.pollingIntervalMs # 0
HasPinnedTab(partial) == "pinnedTab" \in DOMAIN partial /\ partial.pinnedTab # ""

\* handleMessage UPDATE_SETTINGS once storage.setSettings has written
AfterSetSettings(task) ==
    IF HasInterval(task.msg) THEN [task EXCEPT !.pc = "sa_settings"] ELSE Ended

\* handleMessage SETTINGS_UPDATED up to its first await
OnSettingsUpdatedRefetching(task) ==
    [task EXCEPT !.kind = "SETTINGS_UPDATED", !.pc = "fetch",
                 !.my = Pending, !.rr = Pending]

OnSettingsUpdated(task) ==
    IF HasPinnedTab(task.msg)
    THEN [task EXCEPT !.kind = "SETTINGS_UPDATED", !.pc = "su_prs"]
    ELSE Ended

\* the worker after its start with a stored configuration and the shipped settings
InitWorkerConfigured ==
    /\ provider = CreateProvider(GitHubConfig)
    /\ storedProvider = GitHubConfig
    /\ pullRequests = NoSnapshot
    /\ settings = DEFAULT_SETTINGS
    /\ alarm = AlarmPeriod(DEFAULT_pollingIntervalMs)
    /\ badge = ""
    /\ tasks = {}
    /\ cycles = 0
    /\ failed = {}
    /\ now = 1

\* an UPDATE_SETTINGS message arrives: storage.setSettings asks for the settings
UpdateSettingsReceived(partial) ==
    /\ CanTrigger
    /\ tasks' = tasks \cup
                   {[NewTask("UPDATE_SETTINGS", "set_get", cycles + 1) EXCEPT
                        !.msg = partial]}
    /\ cycles' = cycles + 1
    /\ UNCHANGED <<provider, storedProvider, pullRequests, settings, alarm, badge,
                   failed, now>>
    /\ UNCHANGED <<checkVars, reviewVars, listVars, popupVars, wizardVars, callVars, responseVars>>

\* the settings page: a pinnedTab radio option is clicked, storage.updateSetting
\* asks for the settings
RadioClicked(tab) ==
    /\ CanTrigger
    /\ tasks' = tasks \cup
                   {[NewTask("radio", "upd_get", cycles + 1) EXCEPT
                        !.msg = [pinnedTab |-> tab]]}
    /\ cycles' = cycles + 1
    /\ UNCHANGED <<provider, storedProvider, pullRequests, settings, alarm, badge,
                   failed, now>>
    /\ UNCHANGED <<checkVars, reviewVars, listVars, popupVars, wizardVars, callVars, responseVars>>

\* storage answers the getSettings of setSettings / updateSetting
SettingsRead(task) ==
    /\ task.pc \in {"set_get", "upd_get"}
    /\ tasks' = Continue(task, [task EXCEPT
                                   !.pc = IF task.pc = "set_get" THEN "set_put"
                                          ELSE "upd_put",
                                   !.read = settings])
    /\ UNCHANGED <<provider, storedProvider, pullRequests, settings, alarm, badge,
                   cycles, failed, now>>
    /\ UNCHANGED <<checkVars, reviewVars, listVars, popupVars, wizardVars, callVars>>
    /\ SendResponse(task)

\* setSettings writes { ...current, ...settings }; the handler goes on
SetSettingsWrite(task) ==
    /\ task.pc = "set_put"
    /\ settings' = Merge(task.read, task.msg)
    /\ tasks' = Continue(task, AfterSetSettings(task))
    /\ UNCHANGED <<provider, storedProvider, pullRequests, alarm, badge, cycles,
                   failed, now>>
    /\ UNCHANGED <<checkVars, reviewVars, listVars, popupVars, wizardVars, callVars>>
    /\ SendResponse(task)

\* updateSetting writes the settings it read with the one key replaced; the page
\* then sends SETTINGS_UPDATED and the worker's handler asks for the snapshot
UpdateSettingWrite(task) ==
    /\ task.pc = "upd_put"
    /\ settings' = [task.read EXCEPT !.pinnedTab = task.msg.pinnedTab]
    /\ tasks' = Continue(task, OnSettingsUpdated(task))
    /\ UNCHANGED <<provider, storedProvider, pullRequests, alarm, badge, cycles,
                   failed, now>>
    /\ UNCHANGED <<checkVars, reviewVars, listVars, popupVars, wizardVars, callVars>>
    /\ SendResponse(task)

\* handleMessage SETTINGS_UPDATED: storage.getPullRequests has answered and
\* updateBadgeFromSettings asks for the settings
SettingsUpdatedPRs(task) ==
    /\ task.pc = "su_prs"
    /\ LET data == GetPullRequests(pullRequests)
       IN tasks' = Continue(task, [task EXCEPT !.pc = "badge",
                                               !.my = Resolved(data.myPRs),
                                               !.rr = Resolved(data.reviewRequests)])
    /\ UNCHANGED <<provider, storedProvider, pullRequests, settings, alarm, badge,
                   cycles, failed, now>>
    /\ UNCHANGED <<checkVars, reviewVars, listVars, popupVars, wizardVars, callVars>>
    /\ SendResponse(task)

\* ---- the other messages
\* a stored configuration of a type createProvider has no case for
ForeignConfig == [type |-> "gitlab", token |-> 0]

\* the worker starts with a stored configuration of either kind
InitWorkerStarting ==
    /\ provider = NoProvider
    /\ storedProvider \in {GitHubConfig, ForeignConfig}
    /\ pullRequests = NoSnapshot
    /\ settings = DEFAULT_SETTINGS
    /\ alarm = 0
    /\ badge = ""
    /\ tasks = {NewTask("startup", "s_init", 0)}
    /\ cycles = 0
    /\ failed = {}
    /\ now = 1

\* a PROVIDER_CONFIGURED message arrives: initializeProvider asks for the stored
\* provider
ProviderConfiguredReceived ==
    /\ CanTrigger
    /\ tasks' = tasks \cup {NewTask("PROVIDER_CONFIGURED", "h_init", cycles + 1)}
    /\ cycles' = cycles + 1
    /\ UNCHANGED <<provider, storedProvider, pullRequests, settings, alarm, badge,
                   failed, now>>
    /\ UNCHANGED <<checkVars, reviewVars, listVars, popupVars, wizardVars, callVars, responseVars>>

\* a GET_PRS message arrives: storage.getPullRequests asks for the snapshot
GetPRsReceived ==
    /\ CanTrigger
    /\ tasks' = tasks \cup {NewTask("GET_PRS", "gp_get", cycles + 1)}
    /\ cycles' = cycles + 1
    /\ UNCHANGED <<provider, storedProvider, pullRequests, settings, alarm, badge,
                   failed, now>>
    /\ UNCHANGED <<checkVars, reviewVars, listVars, popupVars, wizardVars, callVars, responseVars>>

\* handleMessage GET_PRS: storage has answered, the handler returns prData
GetPRsDone(task) ==
    /\ task.pc = "gp_get"
    /\ tasks' = Continue(task, Ended)
    /\ UNCHANGED <<provider, storedProvider, pullRequests, settings, alarm, badge,
                   cycles, failed, now>>
    /\ UNCHANGED <<checkVars, reviewVars, listVars, popupVars, wizardVars, callVars>>
    /\ SendResponse(task)

\* a message of a type handleMessage has no case for: the default branch returns
\* { error: 'Unknown message type' } without awaiting anything
UnknownMessageReceived ==
    /\ cycles < MaxCycles
    /\ cycles' = cycles + 1
    /\ response' = [to |-> cycles + 1, value |-> "error"]
    /\ UNCHANGED <<provider, storedProvider, pullRequests, settings, alarm, badge,
                   tasks, failed, now>>
    /\ UNCHANGED <<checkVars, reviewVars, listVars, popupVars, wizardVars, callVars>>

\* =================================================================
\* The two reductions called repeatedly on one provider instance
\* =================================================================
\* the pull requests the calls are made for
PullNumbers == {11, 12}
CallHeads == BOOLEAN
CallRequested == {<<>>, <<"b">>}

InitCallsIdle == callLog = <<>>

\* provider.getCheckStatus(repo, number) returns; the responses were pr.head.sha
\* (present or not) and runs
CheckStatusCalled(number, sha, runs) ==
    /\ Len(callLog) < MaxCalls
    /\ checkResult' = GetCheckStatus(sha, runs)
    /\ check_runs' = runs
    /\ headSha' = sha
    /\ callLog' = Append(callLog, [fn |-> "getCheckStatus", number |-> number,
                                   args |-> <<sha, runs>>,
                                   result |-> GetCheckStatus(sha, runs)])
    /\ UNCHANGED <<reviewVars, workerVars, listVars, popupVars, wizardVars, responseVars>>

\* provider.getReviewStatus(repo, number, requested) returns; the response was data
ReviewStatusCalled(number, data, requested) ==
    /\ Len(callLog) < MaxCalls
    /\ reviewResult' = GetReviewStatus(data, requested)
    /\ reviews' = data
    /\ requestedReviewers' = requested
    /\ callLog' = Append(callLog, [fn |-> "getReviewStatus", number |-> number,
                                   args |-> <<data, requested>>,
                                   result |-> GetReviewStatus(data, requested)])
    /\ UNCHANGED <<checkVars, workerVars, listVars, popupVars, wizardVars, responseVars>>

\* =================================================================
\* The onboarding wizard
\* =================================================================
LastStep == 4
WizardSteps == 1..LastStep
DisplayModes == {"popup", "fullpage"}

\* the members of the exported storage object
StorageMethods ==
    {"getProvider", "setProvider", "clearProvider", "getPullRequests",
     "setPullRequests", "getSettings", "setSettings", "updateSetting",
     "isAuthenticated", "isOnboardingComplete", "clearAll"}

\* storage.<method>(...): calling a member the object lacks throws a TypeError
CallStorage(method) == IF method \in StorageMethods THEN "called" ELSE "TypeError"

InitialOnboardingSettings ==
    [pinnedTab |-> DEFAULT_pinnedTab, jiraBaseUrl |-> "", displayMode |-> "popup"]

SetupIdle == [pc |-> "idle", read |-> EmptySettings]
SetupFailedMessage == "Failed to complete setup. Please try again."

\* the outcomes of testConnection: a missing or malformed token, a token GitHub
\* refuses, a token GitHub accepts
ConnectionOutcomes == {"invalid", "refused", "connected"}

\* goToStep marking the step it shows as completed too
CompletedBelowInclusive(step) == {s \in WizardSteps : s <= step}

\* goToStep marks the progress steps below step as completed
CompletedBelow(step) == {s \in WizardSteps : s < step}

\* completeSetup once storage.setSettings has resolved: the call of
\* storage.setOnboardingComplete either returns a promise to await or throws
\* into the catch block
AfterSetupSettings ==
    IF CallStorage("setOnboardingComplete") = "called"
    THEN "setOnboardingComplete"
    ELSE "failed"

\* the service worker right after the extension was installed: nothing is
\* stored, and the start of the worker has armed the alarm
InitWorkerInstalled ==
    /\ provider = NoProvider
    /\ storedProvider = NoConfig
    /\ pullRequests = NoSnapshot
    /\ settings = DEFAULT_SETTINGS
    /\ alarm = AlarmPeriod(DEFAULT_pollingIntervalMs)
    /\ badge = ""
    /\ tasks = {}
    /\ cycles = 0
    /\ failed = {}
    /\ now = 1

InitWizardIdle ==
    /\ currentStep = 1
    /\ completedSteps = {}
    /\ providerData = NoConfig
    /\ onboardingSettings = InitialOnboardingSettings
    /\ setup = SetupIdle
    /\ errorMessage = ""
    /\ sentMessages = <<>>

\* the Test Connection button of step 1, up to the end of testConnection
TestConnection(outcome) ==
    /\ currentStep = 1
    /\ setup.pc # "complete"
    /\ IF outcome = "connected"
       THEN /\ providerData' = GitHubConfig
            /\ errorMessage' = ""
       ELSE /\ errorMessage' = outcome
            /\ UNCHANGED providerData
    /\ UNCHANGED <<currentStep, completedSteps, onboardingSettings, setup, sentMessages>>
    /\ UNCHANGED <<checkVars, reviewVars, workerVars, listVars, popupVars, callVars, responseVars>>

\* a .next-step button; on step 1 it is the Test Connection button, which
\* becomes Continue once a token was validated
NextStep ==
    /\ setup.pc # "complete"
    /\ currentStep = 1 => providerData # NoConfig
    /\ IF currentStep < LastStep
       THEN /\ currentStep' = currentStep + 1
            /\ completedSteps' = CompletedBelow(currentStep + 1)
       ELSE UNCHANGED <<currentStep, completedSteps>>
    /\ UNCHANGED <<providerData, onboardingSettings, setup, errorMessage, sentMessages>>
    /\ UNCHANGED <<checkVars, reviewVars, workerVars, listVars, popupVars, callVars, responseVars>>

\* a .prev-step button
PrevStep ==
    /\ setup.pc # "complete"
    /\ IF currentStep > 1
       THEN /\ currentStep' = currentStep - 1
            /\ completedSteps' = CompletedBelow(currentStep - 1)
       ELSE UNCHANGED <<currentStep, completedSteps>>
    /\ UNCHANGED <<providerData, onboardingSettings, setup, errorMessage, sentMessages>>
    /\ UNCHANGED <<checkVars, reviewVars, workerVars, listVars, popupVars, callVars, responseVars>>

\* handleRadioChange: the pinned-tab cards of step 2, the display-mode cards of step 4
WizardRadioChanged(name, value) ==
    /\ setup.pc # "complete"
    /\ \/ name = "pinnedTab" /\ currentStep = 2 /\ value \in PinnedTabs
       \/ name = "displayMode" /\ currentStep = LastStep /\ value \in DisplayModes
    /\ onboardingSettings' = [onboardingSettings EXCEPT ![name] = value]
    /\ UNCHANGED <<currentStep, completedSteps, providerData, setup, errorMessage,
                   sentMessages>>
    /\ UNCHANGED <<checkVars, reviewVars, workerVars, listVars, popupVars, callVars, responseVars>>

\* the Complete Setup button of the last step: completeSetup disables the
\* button and calls storage.setProvider
CompleteSetupClicked ==
    /\ currentStep = LastStep
    /\ setup.pc \in {"idle", "failed"}
    /\ setup' = [pc |-> "setProvider", read |-> EmptySettings]
    /\ UNCHANGED <<currentStep, completedSteps, providerData, onboardingSettings,
                   errorMessage, sentMessages>>
    /\ UNCHANGED <<checkVars, reviewVars, workerVars, listVars, popupVars, callVars, responseVars>>

\* the promise completeSetup awaits settles and completeSetup runs on to its
\* next await, to its end or into its catch block
CompleteSetupResumes ==
    /\ setup.pc \in {"setProvider", "getSettings", "setSettings",
                     "setOnboardingComplete", "sendMessage"}
    /\ CASE setup.pc = "setProvider" ->
              \* the provider is stored; storage.setSettings reads the settings
              /\ storedProvider' = providerData
              /\ setup' = [setup EXCEPT !.pc = "getSettings"]
              /\ UNCHANGED <<settings, tasks, cycles, completedSteps, errorMessage,
                             sentMessages>>
         [] setup.pc = "getSettings" ->
              /\ setup' = [pc |-> "setSettings", read |-> settings]
              /\ UNCHANGED <<storedProvider, settings, tasks, cycles, completedSteps,
                             errorMessage, sentMessages>>
         [] setup.pc = "setSettings" ->
              \* the merged settings are stored; storage.setOnboardingComplete(true)
              /\ settings' = Merge(setup.read, onboardingSettings)
              /\ setup' = [setup EXCEPT !.pc = AfterSetupSettings]
              /\ errorMessage' = IF AfterSetupSettings = "failed"
                                 THEN SetupFailedMessage
                                 ELSE errorMessage
              /\ UNCHANGED <<storedProvider, tasks, cycles, completedSteps, sentMessages>>
         [] setup.pc = "setOnboardingComplete" ->
              \* chrome.runtime.sendMessage({type: 'PROVIDER_CONFIGURED'})
              /\ tasks' = tasks \cup {NewTask("PROVIDER_CONFIGURED", "h_init", cycles + 1)}
              /\ cycles' = cycles + 1
              /\ sentMessages' = Append(sentMessages, "PROVIDER_CONFIGURED")
              /\ setup' = [setup EXCEPT !.pc = "sendMessage"]
              /\ UNCHANGED <<storedProvider, settings, completedSteps, errorMessage>>
         [] setup.pc = "sendMessage" ->
              \* the worker has responded; the success screen is shown
              /\ \A task \in tasks : task.kind # "PROVIDER_CONFIGURED"
              /\ setup' = [setup EXCEPT !.pc = "complete"]
              /\ completedSteps' = WizardSteps
              /\ UNCHANGED <<storedProvider, settings, tasks, cycles, errorMessage,
                             sentMessages>>
    /\ UNCHANGED <<provider, pullRequests, alarm, badge, failed, now>>
    /\ UNCHANGED <<currentStep, providerData, onboardingSettings>>
    /\ UNCHANGED <<checkVars, reviewVars, listVars, popupVars, callVars, responseVars>>

Next ==
    \/ AlarmFires
    \/ RefreshRequested
    \/ \E token \in {GitHubConfig.token} : TokenSaved(token)
    \/ ResetAll
    \/ \E task \in tasks : ConfiguredInitDone(task)
    \/ \E task \in tasks : StartupInitDone(task)
    \/ \E task \in tasks : FetchInitDone(task)
    \/ \E task \in tasks, which \in {"my", "rr"}, n \in ListSizes :
          ListResolves(task, which, n)
    \/ \E task \in tasks, which \in {"my", "rr"} : ListRejects(task, which)
    \/ \E task \in tasks : BadgeDone(task)
    \/ \E task \in tasks : AlarmSettingsDone(task)
    \/ \E task \in tasks : AlarmClearDone(task)

\* =================================================================
\* Specifications
\* =================================================================
Init == InitChecksIdle /\ InitReviewsIdle /\ InitWorker /\ InitListIdle /\ InitPopupIdle /\ InitWizardIdle /\ InitCallsIdle /\ InitNoResponse
Spec == Init /\ [][Next]_vars

\* the configured worker with its triggers, reconfiguration and reset, under
\* the assumption that every request a handler awaits (a storage call, an alarm
\* call, a list operation) eventually settles, after which the handler runs on
InitCycles ==
    InitChecksIdle /\ InitReviewsIdle /\ InitWorkerConfigured /\ InitListIdle /\ InitPopupIdle
        /\ InitWizardIdle /\ InitCallsIdle /\ InitNoResponse
\* the length of a list has no part in how a cycle proceeds: one length is taken
CycleListSizes == {1}
NextCycles ==
    \/ AlarmFires
    \/ RefreshRequested
    \/ \E token \in Tokens : TokenSaved(token)
    \/ ResetAll
    \/ \E task \in tasks : ConfiguredInitDone(task)
    \/ \E task \in tasks, which \in {"my", "rr"}, n \in CycleListSizes :
          ListResolves(task, which, n)
    \/ \E task \in tasks, which \in {"my", "rr"} : ListRejects(task, which)
    \/ \E task \in tasks : BadgeDone(task)
    \/ \E task \in tasks : AlarmSettingsDone(task)
    \/ \E task \in tasks : AlarmClearDone(task)
HandlerStep ==
    \/ \E task \in tasks : ConfiguredInitDone(task)
    \/ \E task \in tasks, which \in {"my", "rr"}, n \in CycleListSizes :
          ListResolves(task, which, n)
    \/ \E task \in tasks, which \in {"my", "rr"} : ListRejects(task, which)
    \/ \E task \in tasks : BadgeDone(task)
    \/ \E task \in tasks : AlarmSettingsDone(task)
    \/ \E task \in tasks : AlarmClearDone(task)
SpecCycles == InitCycles /\ [][NextCycles]_vars /\ WF_vars(HandlerStep)

InitChecks == InitChecksInputs /\ InitReviewsIdle /\ InitWorkerIdle /\ InitListIdle /\ InitPopupIdle /\ InitWizardIdle /\ InitCallsIdle /\ InitNoResponse
NextChecks == CallGetCheckStatus
SpecChecks == InitChecks /\ [][NextChecks]_vars

InitReviews == InitChecksIdle /\ InitReviewsInputs /\ InitWorkerIdle /\ InitListIdle /\ InitPopupIdle /\ InitWizardIdle /\ InitCallsIdle /\ InitNoResponse
NextReviews == CallGetReviewStatus
SpecReviews == InitReviews /\ [][NextReviews]_vars

InitList == InitChecksIdle /\ InitReviewsIdle /\ InitWorkerIdle /\ InitListIdle /\ InitPopupIdle /\ InitWizardIdle /\ InitCallsIdle /\ InitNoResponse
NextList ==
    \/ \E op \in ListCalls : CallList(op)
    \/ \E result \in SearchResults : SearchResolves(result)
    \/ SearchRejects
    \/ \E i \in 1..Len(slots), data \in PullResponses : DetailResolves(i, data)
    \/ \E i \in 1..Len(slots) : DetailRejects(i)
    \/ \E i \in 1..Len(slots), runs \in ItemCheckRuns : CheckResolves(i, runs)
    \/ \E i \in 1..Len(slots) : CheckRejects(i)
    \/ \E i \in 1..Len(slots), data \in ItemReviews : ReviewResolves(i, data)
    \/ \E i \in 1..Len(slots) : ReviewRejects(i)
    \/ ListReturns
SpecList == InitList /\ [][NextList]_vars

InitSettings == InitChecksIdle /\ InitReviewsIdle /\ InitWorkerConfigured /\ InitListIdle /\ InitPopupIdle /\ InitWizardIdle /\ InitCallsIdle /\ InitNoResponse
NextSettings ==
    \/ AlarmFires
    \/ \E partial \in SettingsMessages : UpdateSettingsReceived(partial)
    \/ \E tab \in PinnedTabs : RadioClicked(tab)
    \/ \E task \in tasks, which \in {"my", "rr"}, n \in ListSizes :
          ListResolves(task, which, n)
    \/ \E task \in tasks, which \in {"my", "rr"} : ListRejects(task, which)
    \/ \E task \in tasks : BadgeDone(task)
    \/ \E task \in tasks : SettingsRead(task)
    \/ \E task \in tasks : SetSettingsWrite(task)
    \/ \E task \in tasks : UpdateSettingWrite(task)
    \/ \E task \in tasks : SettingsUpdatedPRs(task)
    \/ \E task \in tasks : AlarmSettingsDone(task)
    \/ \E task \in tasks : AlarmClearDone(task)
SpecSettings == InitSettings /\ [][NextSettings]_vars

InitPopup ==
    InitChecksIdle /\ InitReviewsIdle /\ InitWorkerIdle /\ InitListIdle /\ InitPopupInputs
        /\ InitWizardIdle /\ InitCallsIdle /\ InitNoResponse
NextPopup == RenderPRList
SpecPopup == InitPopup /\ [][NextPopup]_vars

InitOnboarding ==
    InitChecksIdle /\ InitReviewsIdle /\ InitWorkerInstalled /\ InitListIdle /\ InitPopupIdle
        /\ InitWizardIdle /\ InitCallsIdle /\ InitNoResponse
NextOnboarding ==
    \/ \E outcome \in ConnectionOutcomes : TestConnection(outcome)
    \/ NextStep
    \/ PrevStep
    \/ \E name \in {"pinnedTab", "displayMode"}, value \in PinnedTabs \cup DisplayModes :
          WizardRadioChanged(name, value)
    \/ CompleteSetupClicked
    \/ CompleteSetupResumes
SpecOnboarding == InitOnboarding /\ [][NextOnboarding]_vars

\* the message listener of the worker: every message type, with a stored
\* configuration of a known or an unknown type, under the assumption that every
\* request a handler awaits eventually settles
InitMessages ==
    InitChecksIdle /\ InitReviewsIdle /\ InitWorkerStarting /\ InitListIdle /\ InitPopupIdle
        /\ InitWizardIdle /\ InitCallsIdle /\ InitNoResponse
MessageStep ==
    \/ \E task \in tasks : StartupInitDone(task)
    \/ \E task \in tasks : ConfiguredInitDone(task)
    \/ \E task \in tasks : FetchInitDone(task)
    \/ \E task \in tasks, which \in {"my", "rr"}, n \in CycleListSizes :
          ListResolves(task, which, n)
    \/ \E task \in tasks, which \in {"my", "rr"} : ListRejects(task, which)
    \/ \E task \in tasks : BadgeDone(task)
    \/ \E task \in tasks : AlarmSettingsDone(task)
    \/ \E task \in tasks : AlarmClearDone(task)
    \/ \E task \in tasks : GetPRsDone(task)
    \/ \E task \in tasks : SettingsRead(task)
    \/ \E task \in tasks : SetSettingsWrite(task)
    \/ \E task \in tasks : UpdateSettingWrite(task)
    \/ \E task \in tasks : SettingsUpdatedPRs(task)
NextMessages ==
    \/ ProviderConfiguredReceived
    \/ RefreshRequested
    \/ GetPRsReceived
    \/ \E partial \in SettingsMessages : UpdateSettingsReceived(partial)
    \/ \E tab \in PinnedTabs : RadioClicked(tab)
    \/ UnknownMessageReceived
    \/ MessageStep
SpecMessages == InitMessages /\ [][NextMessages]_vars /\ WF_vars(MessageStep)

InitCalls ==
    InitChecksIdle /\ InitReviewsIdle /\ InitWorkerIdle /\ InitListIdle /\ InitPopupIdle
        /\ InitWizardIdle /\ InitCallsIdle /\ InitNoResponse
NextCalls ==
    \/ \E number \in PullNumbers, sha \in CallHeads, runs \in ItemCheckRuns :
          CheckStatusCalled(number, sha, runs)
    \/ \E number \in PullNumbers, data \in ItemReviews, requested \in CallRequested :
          ReviewStatusCalled(number, data, requested)
SpecCalls == InitCalls /\ [][NextCalls]_vars


\* =================================================================
\* Properties
\* =================================================================
InFetch(task) == task.pc = "fetch"
Snapshot == GetPullRequests(pullRequests)

\* C1: at most one polling cycle is in flight: no two invocations of
\* fetchAndCachePRs have their list operations outstanding at the same time.
AtMostOneCycleInFlight ==
    \A t, u \in tasks : InFetch(t) /\ InFetch(u) => t = u

\* C2: a failed cycle never changes the persisted snapshot: the step in which an
\* invocation fails leaves the stored pullRequests as it was (in particular it is
\* not cleared), and no list the snapshot holds was written by a failed invocation.
FailedCycleKeepsSnapshot ==
    /\ [][failed' # failed => pullRequests' = pullRequests]_vars
    /\ [](Snapshot.myPRs.by \notin failed /\ Snapshot.reviewRequests.by \notin failed)

FailedCycleAfterSnapshot ==
    \E c \in failed : Snapshot.myPRs.by > 0 /\ Snapshot.myPRs.by < c

\* C3: snapshot atomicity: in every state the stored myPRs and reviewRequests come
\* from the same invocation of the cycle, or both are the initial empty lists.
SnapshotFromOneCycle == Snapshot.myPRs.by = Snapshot.reviewRequests.by

\* a second cycle has one list resolved while the snapshot of another cycle is stored
SnapshotReadDuringOtherCycle ==
    \E t \in tasks :
        /\ InFetch(t)
        /\ t.my # Pending \/ t.rr # Pending
        /\ Snapshot.myPRs.by > 0
        /\ Snapshot.myPRs.by # t.cycle

\* ---- a cycle runs to completion (SpecCycles)
CycleRunning(c) == \E t \in tasks : t.cycle = c /\ t.pc \in {"fetch", "badge"}
CycleTask(c) == CHOOSE t \in tasks : t.cycle = c
Persisted(c) == Snapshot.myPRs.by = c /\ Snapshot.reviewRequests.by = c

\* a step of a running cycle c: it stays in its list operations, or both lists
\* have resolved and it persists them as the snapshot, or it ends: in failure
\* with the snapshot untouched, or after its badge update, its snapshot having
\* been persisted; and the step that ends it leaves adapter and alarm as they are
CycleStep(c) ==
    CycleRunning(c) =>
        LET t == CycleTask(c)
        IN \/ CycleRunning(c)' /\ t.pc = "fetch" /\ CycleTask(c)'.pc = "fetch"
                /\ c \notin failed'
           \/ CycleRunning(c)' /\ t.pc = "fetch" /\ CycleTask(c)'.pc = "badge"
                /\ Persisted(c)' /\ c \notin failed'
           \/ CycleRunning(c)' /\ t.pc = "badge" /\ CycleTask(c)' = t
           \/ ~CycleRunning(c)' /\ t.pc = "fetch" /\ c \in failed'
                /\ pullRequests' = pullRequests
                /\ provider' = provider /\ alarm' = alarm
           \/ ~CycleRunning(c)' /\ t.pc = "badge" /\ c \notin failed'
                /\ pullRequests' = pullRequests
                /\ provider' = provider /\ alarm' = alarm
EveryCycleStep == \A c \in CycleIds : CycleStep(c)

\* C33: a cycle, once started, runs to completion: given that every request it
\* awaits settles, every started cycle eventually ends, either in failure with
\* the snapshot unchanged or after persisting its snapshot; no step of any other
\* handler or of the pages removes or rewinds it, and the step that ends it
\* leaves the adapter and the alarm in place for the next trigger
CycleRunsToCompletion ==
    /\ \A c \in CycleIds : CycleRunning(c) ~> ~CycleRunning(c)
    /\ [][EveryCycleStep]_vars

\* a cycle that has persisted its snapshot is still running while the storage
\* was reset and a later cycle is fetching
ResetDuringRunningCycle ==
    \E t, u \in tasks :
        /\ t.pc = "badge"
        /\ u.pc = "fetch"
        /\ u.cycle > t.cycle
        /\ storedProvider = NoConfig

\* ---- overlapping cycles (SpecCycles)
\* a cycle started by an alarm tick or REFRESH_PRS writes the snapshot over the
\* one a cycle triggered after it has written
StaleWrite ==
    \E t \in tasks :
        /\ t.kind # "PROVIDER_CONFIGURED"
        /\ InFetch(t)
        /\ pullRequests' # pullRequests
        /\ Persisted(t.cycle)'
        /\ Snapshot.myPRs.by > t.cycle
NoStaleWrite == ~StaleWrite

\* C34: no stale overwrite: a cycle that started earlier but finished later never
\* replaces the snapshot written by a cycle that started after it, so that once
\* all cycles have finished the persisted snapshot is that of the most recently
\* started successful cycle
NoStaleOverwrite == [][NoStaleWrite]_vars

\* ---- reconfiguration (SpecCycles)
\* every PROVIDER_CONFIGURED message has been handled to its end and the
\* adapter in place is the one built from the stored configuration
ConfigurationHandled ==
    /\ storedProvider # NoConfig
    /\ provider = CreateProvider(storedProvider)
    /\ \A h \in tasks : h.kind # "PROVIDER_CONFIGURED"

\* a cycle whose list operations were called on an adapter built from another
\* configuration persists its result
ForeignWrite ==
    \E t \in tasks :
        /\ InFetch(t)
        /\ t.adapter # CreateProvider(storedProvider)
        /\ pullRequests' # pullRequests
        /\ Persisted(t.cycle)'
NoForeignWrite == ConfigurationHandled => ~ForeignWrite

\* C35: reconfiguration isolates credentials: once PROVIDER_CONFIGURED has been
\* fully handled, no cycle that was started with the previous adapter and is
\* still in flight persists its result over the new account's snapshot, so the
\* persisted snapshot stays the one produced with the stored configuration
ReconfigurationIsolatesCredentials == [][NoForeignWrite]_vars

\* C19: when the worker starts and no provider configuration is persisted, the
\* polling alarm is not armed, and it stays disarmed until PROVIDER_CONFIGURED is
\* handled: while no trigger has been handled, no adapter exists and no
\* configuration is stored, there is no alarm.
DisarmedWithoutConfiguration ==
    (cycles = 0 /\ provider = NoProvider /\ storedProvider = NoConfig) => alarm = 0

\* C20: after storage.clearAll no later alarm tick or refresh request invokes the
\* adapter until a new configuration is supplied: a trigger taken while no
\* provider configuration is stored never starts fetchAllPullRequests.
NoFetchWithoutStoredConfiguration ==
    [][(storedProvider = NoConfig /\ storedProvider' = NoConfig /\ cycles' = cycles + 1)
          => \A task \in tasks' \ tasks : ~InFetch(task)]_vars

\* the handler invocations a step started, and what became of a running one
Started == IF cycles' = cycles + 1 THEN tasks' \ tasks ELSE {}
SuccessorOf(task) == {next \in tasks' : next.cycle = task.cycle}
Rank(pc) ==
    CASE pc = "h_init" -> 1
      [] pc = "fc_init" -> 2
      [] pc = "fetch" -> 3
      [] pc = "badge" -> 4
      [] pc = "sa_settings" -> 5
      [] pc = "sa_clear" -> 6
      [] OTHER -> 0

\* a trigger taken while no provider configuration is persisted
QuietTrigger ==
    (storedProvider = NoConfig /\ storedProvider' = NoConfig /\ Started # {}) =>
        /\ \A task \in Started : task.pc = "fc_init"
        /\ pullRequests' = pullRequests
        /\ badge' = badge
        /\ failed' = failed

\* C21: a trigger that arrives while no provider configuration is persisted makes
\* no adapter call, leaves the snapshot and the badge unchanged and is not
\* reported as a failed fetch: its handler only goes to read the configuration.
MissingConfigurationFailsQuietly == [][QuietTrigger]_vars

\* a step of a PROVIDER_CONFIGURED handler keeps the order of its three parts
ConfiguredHandlerStep(task) ==
    /\ \A next \in SuccessorOf(task) : Rank(next.pc) >= Rank(task.pc)
    /\ task.pc = "h_init" =>
          /\ storedProvider # NoConfig => provider' = CreateProvider(storedProvider)
          /\ \E next \in SuccessorOf(task) : next.pc \in {"fetch", "fc_init"}
          /\ alarm' = alarm
    /\ (\E next \in SuccessorOf(task) : next.pc = "sa_settings")
          => task.pc \in {"fc_init", "fetch", "badge"}
    /\ SuccessorOf(task) = {} => (task.pc = "sa_clear" /\ alarm' > 0)

\* C22: handling PROVIDER_CONFIGURED first replaces the adapter by one built from
\* the persisted configuration, then runs one fetch cycle, then re-arms the alarm,
\* and the handler returns (its response is sent) only after the alarm is armed.
ConfiguredHandlerOrder ==
    [][\A task \in tasks :
          (task.kind = "PROVIDER_CONFIGURED" /\ task \notin tasks')
              => ConfiguredHandlerStep(task)]_vars

ConfiguredHandlerReArming ==
    \E task \in tasks :
        /\ task.kind = "PROVIDER_CONFIGURED"
        /\ task.pc = "sa_clear"
        /\ provider = CreateProvider(storedProvider)
        /\ pullRequests # NoSnapshot
        /\ Snapshot.myPRs.by = task.cycle

\* an alarm tick right after the most recent trigger's cycle has failed
TickAfterFailedCycle ==
    cycles \in failed => \A task \in Started : task.kind = "alarm" => ~InFetch(task)

\* C26: after a cycle failed on a top-level list request (an authentication
\* failure among them) and no trigger has followed it yet, an alarm tick does not
\* call the adapter again.
FailedCycleNotRetriedByAlarm == [][TickAfterFailedCycle]_vars

\* the step in which a cycle fails
FailingStep ==
    failed' # failed =>
        /\ alarm' = alarm
        /\ \A task \in tasks :
              (task.cycle \in failed' \ failed) =>
                  IF task.kind = "PROVIDER_CONFIGURED"
                  THEN \E next \in SuccessorOf(task) : next.pc = "sa_settings"
                  ELSE SuccessorOf(task) = {}

\* an alarm tick after some cycle has failed
TickAfterFailure ==
    (failed # {} /\ HasProvider(provider)) =>
        \A task \in Started : task.kind = "alarm" => InFetch(task)

\* C27: a failing cycle is caught inside fetchAndCachePRs: the step leaves the
\* alarm as it is and the handler goes on as after a normal return (re-arming for
\* PROVIDER_CONFIGURED, ending otherwise); a later alarm tick of a worker that
\* has an adapter starts fetchAllPullRequests again, however many cycles failed.
FailedCycleLeavesSchedulerUsable ==
    [][FailingStep]_vars /\ [][TickAfterFailure]_vars

AlarmTickAfterFailedCycle ==
    \E task \in tasks :
        /\ task.kind = "alarm"
        /\ InFetch(task)
        /\ task.cycle - 1 \in failed
        /\ alarm = AlarmPeriod(settings.pollingIntervalMs)

\* C30: with the settings as shipped the armed polling alarm has a period of one
\* minute.
ShippedSettingsPollEveryMinute ==
    (settings = DEFAULT_SETTINGS /\ alarm > 0) => alarm = 60000

\* ---- settings messages (SpecSettings)
\* a step of an UPDATE_SETTINGS handler
UpdateSettingsStep(task) ==
    /\ \A next \in SuccessorOf(task) :
          next.pc \in {"set_put", "sa_settings", "sa_clear"}
    /\ pullRequests' = pullRequests
    /\ cycles' = cycles
    /\ task.pc = "set_put" =>
          /\ HasInterval(task.msg)
                => settings'.pollingIntervalMs = task.msg.pollingIntervalMs
          /\ (SuccessorOf(task) # {}) <=> HasInterval(task.msg)
    /\ task.pc = "sa_settings" =>
          \A next \in SuccessorOf(task) : next.interval = settings.pollingIntervalMs
    /\ task.pc = "sa_clear" =>
          alarm' = (IF task.interval > 60000 THEN task.interval ELSE 60000)
    /\ task.pc # "sa_clear" /\ task.pc # "sa_settings" => alarm' = alarm

\* C23: handling an UPDATE_SETTINGS message that carries a polling interval stores
\* the interval, then replaces the alarm by one whose period is the stored
\* interval, at least one minute; no step of the handler starts a fetch cycle or
\* touches the snapshot, and without an interval the alarm is left alone.
IntervalChangeReArmsOnly ==
    [][\A task \in tasks :
          (task.kind = "UPDATE_SETTINGS" /\ task \notin tasks')
              => UpdateSettingsStep(task)]_vars

ShortIntervalArmedAtOneMinute ==
    /\ tasks = {}
    /\ settings.pollingIntervalMs = 30000
    /\ alarm = 60000

PinnedList(data) ==
    IF settings.pinnedTab = "myPRs" THEN data.myPRs ELSE data.reviewRequests

\* C24: whenever no handler is running, the badge shows the length of the list of
\* the persisted snapshot that the persisted pinnedTab selects, and is empty when
\* that length is 0.
BadgeMatchesPinnedList ==
    tasks = {} =>
        badge = (IF PinnedList(Snapshot).n > 0 THEN ToString(PinnedList(Snapshot).n)
                 ELSE "")

\* a step of a SETTINGS_UPDATED handler
SettingsUpdatedStep(task) ==
    /\ pullRequests' = pullRequests
    /\ alarm' = alarm
    /\ settings' = settings
    /\ cycles' = cycles
    /\ \A next \in SuccessorOf(task) : next.pc = "badge"
    /\ task.pc = "su_prs" =>
          \A next \in SuccessorOf(task) :
              /\ ListOf(next.my) = Snapshot.myPRs
              /\ ListOf(next.rr) = Snapshot.reviewRequests
    /\ task.pc = "badge" =>
          /\ SuccessorOf(task) = {}
          /\ badge' = (IF settings.pinnedTab = "myPRs"
                       THEN (IF task.my.n > 0 THEN ToString(task.my.n) ELSE "")
                       ELSE (IF task.rr.n > 0 THEN ToString(task.rr.n) ELSE ""))

\* C25: handling SETTINGS_UPDATED with a pinnedTab reads the persisted snapshot
\* and sets the badge to the length of the list the persisted pinnedTab selects;
\* no step of the handler calls the adapter, changes the snapshot or its
\* lastFetched, or changes the alarm.
PinnedTabChangeOnlyUpdatesBadge ==
    [][\A task \in tasks :
          (task.kind = "SETTINGS_UPDATED" /\ task \notin tasks')
              => SettingsUpdatedStep(task)]_vars

BadgeRecomputedForReviewRequests ==
    /\ tasks = {}
    /\ settings.pinnedTab = "reviewRequests"
    /\ pullRequests # NoSnapshot
    /\ Snapshot.myPRs.n = 0
    /\ Snapshot.reviewRequests.n = 1
    /\ badge = "1"

\* the step in which setSettings or updateSetting writes leaves every stored
\* key it was not given as it is
WriteKeepsOtherKeys ==
    \A t \in tasks :
        (t.pc \in {"set_put", "upd_put"} /\ t \notin tasks') =>
            /\ \A key \in DOMAIN t.msg : settings'[key] = t.msg[key]
            /\ \A key \in DOMAIN settings \ DOMAIN t.msg : settings'[key] = settings[key]

\* C36: settings updates do not lose each other: updateSetting and setSettings
\* change only the keys they are given and leave every other stored setting
\* unchanged, also when two updates for different keys interleave their read and
\* write steps
SettingsUpdatesKeepOtherKeys == [][WriteKeepsOtherKeys]_vars

\* ---- getCheckStatus
CheckCalled == checkResult # NoResult
HasFailedRun ==
    \E i \in 1..Len(check_runs) :
        check_runs[i].conclusion \in
            {"failure", "timed_out", "cancelled", "startup_failure", "action_required"}

\* C4: fail-fast: a check-run sequence with at least one run whose conclusion is
\* failure, timed_out, cancelled, startup_failure or action_required reduces to
\* 'failure', whatever the other runs' status and conclusion.
CheckFailFast ==
    CheckCalled /\ headSha /\ HasFailedRun => checkResult.status = "failure"

FailedRunBesideRunningRun ==
    /\ CheckCalled /\ headSha /\ HasFailedRun
    /\ \E i \in 1..Len(check_runs) :
          check_runs[i].status = "in_progress" /\ check_runs[i].conclusion = "null"
    /\ \E i \in 1..Len(check_runs) :
          check_runs[i].status = "completed" /\ check_runs[i].conclusion = "success"

AllRunsComplete == \A i \in 1..Len(check_runs) : check_runs[i].status = "completed"
AllRunsSuccessful ==
    \A i \in 1..Len(check_runs) :
        check_runs[i].conclusion \in {"success", "skipped", "neutral"}

\* C11: an empty check-run sequence, and a PR without a head commit, yield
\* {status: unknown, details: []}; every non-empty sequence of a PR with a head
\* commit yields failure, success or pending, never unknown.
UnknownOnlyWithoutCheckRuns ==
    CheckCalled =>
        /\ (~headSha \/ Len(check_runs) = 0)
              => checkResult = [status |-> "unknown", details |-> <<>>]
        /\ (headSha /\ Len(check_runs) > 0)
              => checkResult.status \in {"failure", "success", "pending"}

NoCheckRunsOnHeadCommit ==
    /\ CheckCalled
    /\ headSha
    /\ Len(check_runs) = 0
    /\ checkResult.status = "unknown"

\* C12: the check status is 'success' exactly when the check-run sequence is
\* non-empty, every run is completed and every conclusion is success, skipped or
\* neutral.
SuccessIffAllCompletedSuccessful ==
    CheckCalled =>
        /\ checkResult.status = "success" => headSha
        /\ headSha =>
              (checkResult.status = "success"
                  <=> Len(check_runs) > 0 /\ AllRunsComplete /\ AllRunsSuccessful)

SkippedAndNeutralRunsSucceed ==
    /\ CheckCalled
    /\ headSha
    /\ Len(check_runs) = 2
    /\ check_runs[1].conclusion = "skipped"
    /\ check_runs[2].conclusion = "neutral"
    /\ AllRunsComplete
    /\ checkResult.status = "success"

\* C13: a non-empty check-run sequence without a failure-class conclusion yields
\* 'pending' whenever some run is not completed, and also when every run is
\* completed but some conclusion is outside {success, skipped, neutral} (stale,
\* null); it is never 'success' in those cases.
PendingWhenIncompleteOrUnsuccessful ==
    (CheckCalled /\ headSha /\ Len(check_runs) > 0 /\ ~HasFailedRun) =>
        /\ ~AllRunsComplete => checkResult.status = "pending"
        /\ (AllRunsComplete /\ ~AllRunsSuccessful) => checkResult.status = "pending"

CompletedStaleRunIsPending ==
    /\ CheckCalled
    /\ headSha
    /\ Len(check_runs) = 2
    /\ AllRunsComplete
    /\ check_runs[1].conclusion = "success"
    /\ check_runs[2].conclusion \in {"stale", "null"}
    /\ checkResult.status = "pending"

\* ---- getReviewStatus
ReviewCalled == reviewResult # NoResult
NonBindingStates == {"PENDING", "COMMENTED"}
IsRequested(l) == \E i \in 1..Len(requestedReviewers) : requestedReviewers[i] = l

\* index of the last review by l that is neither PENDING nor COMMENTED, 0 if none
LastBindingIndex(l) ==
    LET idx == {i \in 1..Len(reviews) :
                   reviews[i].login = l /\ reviews[i].state \notin NonBindingStates}
    IN IF idx = {} THEN 0 ELSE CHOOSE i \in idx : \A j \in idx : j <= i
LatestVerdict(l) ==
    IF LastBindingIndex(l) = 0 THEN "none" ELSE reviews[LastBindingIndex(l)].state
\* the reviewers whose verdict stands: not re-requested, with a binding review
Remaining == {l \in Logins : ~IsRequested(l) /\ LatestVerdict(l) # "none"}

\* C5: a re-request supersedes the old verdict: the overall status is
\* 'changes_requested' exactly when some reviewer who is not in
\* requestedReviewerLogins has CHANGES_REQUESTED as latest binding review; a lone
\* CHANGES_REQUESTED review of a re-requested reviewer yields 'pending'.
ReRequestSupersedesVerdict ==
    ReviewCalled =>
        /\ reviewResult.status = "changes_requested"
              <=> \E l \in Remaining : LatestVerdict(l) = "CHANGES_REQUESTED"
        /\ (/\ Len(reviews) = 1
            /\ reviews[1].login = "a"
            /\ reviews[1].state = "CHANGES_REQUESTED"
            /\ requestedReviewers = <<"a">>) => reviewResult.status = "pending"

ReRequestedAfterChangesRequested ==
    /\ ReviewCalled
    /\ Len(reviews) = 1
    /\ reviews[1].login = "a"
    /\ reviews[1].state = "CHANGES_REQUESTED"
    /\ requestedReviewers = <<"a">>
    /\ reviewResult.status = "pending"

\* C6: no login is both in pendingReviewers and in reviewers.
PendingAndReviewersDisjoint ==
    ReviewCalled =>
        \A i \in 1..Len(reviewResult.reviewers), j \in 1..Len(reviewResult.pendingReviewers) :
            reviewResult.reviewers[i].login # reviewResult.pendingReviewers[j]

ReRequestedReviewerHadVerdict ==
    /\ ReviewCalled
    /\ \E l \in Logins : IsRequested(l) /\ LatestVerdict(l) # "none"
    /\ Len(reviewResult.reviewers) > 0
    /\ Len(reviewResult.pendingReviewers) > 0

\* C7: with requestedReviewerLogins non-empty the overall status is
\* 'changes_requested' if a remaining reviewer is CHANGES_REQUESTED and 'pending'
\* otherwise, never 'approved'.
ReRequestPreventsApproved ==
    ReviewCalled /\ Len(requestedReviewers) > 0 =>
        reviewResult.status =
            (IF \E l \in Remaining : LatestVerdict(l) = "CHANGES_REQUESTED"
             THEN "changes_requested" ELSE "pending")

AllRemainingApprovedButReRequested ==
    /\ ReviewCalled
    /\ Len(requestedReviewers) > 0
    /\ Remaining # {}
    /\ \A l \in Remaining : LatestVerdict(l) = "APPROVED"
    /\ reviewResult.status = "pending"

\* C8: with requestedReviewerLogins empty the overall status is 'changes_requested'
\* if a collapsed reviewer is CHANGES_REQUESTED, else 'approved' if there is a
\* collapsed reviewer and all are APPROVED, else 'pending'.
OverallWithoutReRequests ==
    ReviewCalled /\ Len(requestedReviewers) = 0 =>
        reviewResult.status =
            (IF \E l \in Remaining : LatestVerdict(l) = "CHANGES_REQUESTED"
             THEN "changes_requested"
             ELSE IF Remaining # {} /\ \A l \in Remaining : LatestVerdict(l) = "APPROVED"
                  THEN "approved" ELSE "pending")

DismissedBesideApproved ==
    /\ ReviewCalled
    /\ Len(requestedReviewers) = 0
    /\ \E l \in Remaining : LatestVerdict(l) = "DISMISSED"
    /\ \E l \in Remaining : LatestVerdict(l) = "APPROVED"
    /\ reviewResult.status = "pending"

\* C9: reviews collapse per login to the most recent binding one: every entry of
\* reviewers carries the state of the last review by its login that is neither
\* PENDING nor COMMENTED, each login has at most one entry, and every remaining
\* reviewer has one.
CollapsedToLatestBinding ==
    ReviewCalled =>
        LET rs == reviewResult.reviewers
        IN /\ \A i \in 1..Len(rs) : rs[i].state = LatestVerdict(rs[i].login)
           /\ \A i, j \in 1..Len(rs) : rs[i].login = rs[j].login => i = j
           /\ {rs[i].login : i \in 1..Len(rs)} = Remaining

VerdictChangedOverTime ==
    /\ ReviewCalled
    /\ \E i, j \in 1..Len(reviews) :
          /\ i < j
          /\ reviews[i].login = reviews[j].login
          /\ reviews[i].state = "CHANGES_REQUESTED"
          /\ reviews[j].state = "APPROVED"
          /\ ~IsRequested(reviews[i].login)
    /\ Len(reviewResult.reviewers) > 0

InsertAt(s, i, x) == SubSeq(s, 1, i - 1) \o <<x>> \o SubSeq(s, i, Len(s))
RemoveAt(s, i) == SubSeq(s, 1, i - 1) \o SubSeq(s, i + 1, Len(s))
IsBindingState(r) == r.state \notin NonBindingStates

\* C10: PENDING and COMMENTED reviews are non-binding: inserting one anywhere,
\* removing one, or removing them all leaves the result (overall, reviewers,
\* pendingReviewers) unchanged, and no reviewer entry has state PENDING or COMMENTED.
NonBindingReviewsIgnored ==
    ReviewCalled =>
        /\ \A i \in 1..(Len(reviews) + 1) :
              \A r \in {x \in Reviews : x.state \in NonBindingStates} :
                  GetReviewStatus(InsertAt(reviews, i, r), requestedReviewers) = reviewResult
        /\ \A i \in 1..Len(reviews) :
              reviews[i].state \in NonBindingStates =>
                  GetReviewStatus(RemoveAt(reviews, i), requestedReviewers) = reviewResult
        /\ GetReviewStatus(SelectSeq(reviews, IsBindingState), requestedReviewers)
              = reviewResult
        /\ \A i \in 1..Len(reviewResult.reviewers) :
              reviewResult.reviewers[i].state \notin NonBindingStates

CommentAfterVerdict ==
    /\ ReviewCalled
    /\ \E i, j \in 1..Len(reviews) :
          /\ i < j
          /\ reviews[i].login = reviews[j].login
          /\ reviews[i].state = "APPROVED"
          /\ reviews[j].state = "COMMENTED"
          /\ LatestVerdict(reviews[i].login) = "APPROVED"
          /\ \E k \in 1..Len(reviewResult.reviewers) :
                /\ reviewResult.reviewers[k].login = reviews[i].login
                /\ reviewResult.reviewers[k].state = "APPROVED"

\* ---- one list call (SpecList)
ListResolved == listPc = "resolved"
DetailFailed(i) == slots[i].pc = "done" /\ slots[i].detail = Null
DetailArrived(i) == slots[i].detail # Null
CheckFailed(i) == slots[i].checks.st = "rejected"
ReviewFailed(i) == slots[i].reviews.st = "rejected"
UnknownChecks == [status |-> "unknown", details |-> <<>>]
PendingReviews == [status |-> "pending", reviewers |-> <<>>]
NoChanges == [additions |-> 0, deletions |-> 0, filesChanged |-> 0]
FromSearchResult(pr, issue) ==
    /\ pr.id = "github-" \o ToString(issue.id)
    /\ pr.title = issue.title
    /\ pr.url = issue.html_url
IsUnenriched(pr, issue) ==
    /\ FromSearchResult(pr, issue)
    /\ pr.branchName = ""
    /\ pr.changes = NoChanges
    /\ pr.checks = UnknownChecks
    /\ pr.reviews = PendingReviews
FullyEnriched(i) ==
    /\ DetailArrived(i)
    /\ slots[i].checks.st = "fulfilled"
    /\ slots[i].reviews.st = "fulfilled"

\* C14: when the check-status sub-fetch of one PR throws, the list still has one
\* entry per search result, every PR whose sub-fetches all succeeded is fully
\* enriched, and the PR whose check fetch failed keeps the branch name, the change
\* stats and the review status of its other sub-fetches, with checks
\* {status: unknown, details: []}.
CheckFailureKeepsItemEnriched ==
    ListResolved =>
        /\ Len(prs) = Len(items)
        /\ \A i \in 1..Len(items) :
              /\ CheckFailed(i) =>
                    /\ prs[i].checks = UnknownChecks
                    /\ prs[i].branchName = slots[i].detail.branchName
                    /\ prs[i].changes = slots[i].detail.changes
                    /\ slots[i].reviews.st = "fulfilled"
                          => prs[i].reviews = slots[i].reviews.value
              /\ FullyEnriched(i) =>
                    /\ prs[i].checks = slots[i].checks.value
                    /\ prs[i].reviews = slots[i].reviews.value
                    /\ prs[i].branchName = slots[i].detail.branchName
                    /\ prs[i].changes = slots[i].detail.changes

CheckFetchFailedForOneOfTwo ==
    /\ ListResolved
    /\ Len(items) = 2
    /\ CheckFailed(1)
    /\ slots[1].detail.branchName = "feature"
    /\ slots[1].reviews.st = "fulfilled"
    /\ Len(prs[1].reviews.reviewers) = 1
    /\ prs[1].reviews.pendingReviewers = <<"a">>
    /\ FullyEnriched(2)
    /\ prs[2].checks.status = "success"

\* C15: when the review-status sub-fetch of a PR throws after its detail fetch
\* succeeded, the PR's review status is {status: pending, reviewers: [],
\* pendingReviewers: the requestedReviewers of the detail fetch}.
ReviewFailureKeepsRequestedReviewers ==
    \A i \in 1..Len(slots) :
        (slots[i].pc = "done" /\ ReviewFailed(i)) =>
            slots[i].pr.reviews =
                [status |-> "pending", reviewers |-> <<>>,
                 pendingReviewers |-> slots[i].detail.requestedReviewers]

\* C16 as stated: when any sub-fetch of a search result throws, the list has one
\* entry per search result and the failing item is in its unenriched form.
AnySubFetchFailureDegradesItem ==
    ListResolved =>
        /\ Len(prs) = Len(items)
        /\ \A i \in 1..Len(items) :
              (DetailFailed(i) \/ CheckFailed(i) \/ ReviewFailed(i))
                  => IsUnenriched(prs[i], items[i])

\* C16: a list call whose search succeeded never rejects and returns one entry
\* per search result; an item whose detail fetch threw is in its unenriched form
\* (search-result fields, empty branch name, zero change stats, checks
\* {unknown, []}, reviews {pending, []}); an item whose detail fetch succeeded
\* keeps the detail's branch name and change stats, and a failed check or review
\* fetch only replaces that status by its default.
DetailFailureDegradesItem ==
    /\ listPc = "rejected" => slots = <<>>
    /\ ListResolved =>
        /\ Len(prs) = Len(items)
        /\ \A i \in 1..Len(items) :
              /\ DetailFailed(i) => IsUnenriched(prs[i], items[i])
              /\ DetailArrived(i) =>
                    /\ FromSearchResult(prs[i], items[i])
                    /\ prs[i].branchName = slots[i].detail.branchName
                    /\ prs[i].changes = slots[i].detail.changes
                    /\ CheckFailed(i) => prs[i].checks = UnknownChecks
                    /\ ReviewFailed(i) => prs[i].reviews = PendingReviews

DetailFetchFailedForOneOfTwo ==
    /\ ListResolved
    /\ Len(items) = 2
    /\ DetailFailed(2)
    /\ FullyEnriched(1)
    /\ prs[1].branchName = "feature"
    /\ prs[2].branchName = ""

\* C17: per item, getCheckStatus and getReviewStatus are called only after the
\* item's detail request has succeeded, getReviewStatus is given exactly the
\* requestedReviewers that request returned, and when the detail request fails
\* neither is called.
EnrichmentAfterDetail ==
    \A i \in 1..Len(slots) :
        /\ (slots[i].checks # Unissued \/ slots[i].reviews # Unissued) =>
              /\ DetailArrived(i)
              /\ slots[i].reviewArg = slots[i].detail.requestedReviewers
        /\ slots[i].reviews.st = "fulfilled" =>
              slots[i].reviews.value.pendingReviewers = slots[i].detail.requestedReviewers
        /\ DetailFailed(i) => slots[i].checks = Unissued /\ slots[i].reviews = Unissued

ReviewCalledWithRequestedReviewers ==
    /\ Len(slots) = 2
    /\ slots[1].reviews.st = "fulfilled"
    /\ slots[1].reviewArg = <<"a">>
    /\ DetailFailed(2)

\* C18: the i-th element of the returned list is built from the i-th search
\* result (its id, title and url) and carries that item's own enrichment,
\* whatever the order in which the items' enrichments completed.
SlotsKeepSearchOrder ==
    ListResolved =>
        /\ Len(prs) = Len(items)
        /\ \A i \in 1..Len(items) :
              /\ FromSearchResult(prs[i], items[i])
              /\ prs[i]._prNumber = items[i].number
              /\ DetailArrived(i) => prs[i].branchName = slots[i].detail.branchName
              /\ slots[i].checks.st = "fulfilled" => prs[i].checks = slots[i].checks.value
              /\ slots[i].reviews.st = "fulfilled" => prs[i].reviews = slots[i].reviews.value

SecondItemCompletedFirst ==
    /\ ListResolved
    /\ Len(items) = 2
    /\ settled = <<2, 1>>
    /\ FullyEnriched(1) /\ FullyEnriched(2)
    /\ prs[1].checks.status = "success"
    /\ prs[2].checks.status = "pending"

StableId(issue) == "github-" \o ToString(issue.id)

\* C32: the id of a normalized PullRequest is determined by the provider and the
\* provider's identifier of the PR alone: in either list, enriched or degraded,
\* the entry for a search result carries the id made of "github" and issue.id,
\* and entries for different search results carry different ids
PullRequestIdStable ==
    ListResolved =>
        /\ Len(prs) = Len(items)
        /\ \A i \in 1..Len(prs) :
              prs[i].provider = "github" /\ prs[i].id = StableId(items[i])
        /\ \A i \in 1..Len(prs), j \in 1..Len(prs) :
              items[i].id # items[j].id => prs[i].id # prs[j].id

\* a review-requests list with one degraded and one fully enriched entry
DegradedAndEnrichedIds ==
    /\ ListResolved
    /\ listCall = "getReviewRequests"
    /\ Len(items) = 2
    /\ DetailFailed(1)
    /\ FullyEnriched(2)
    /\ prs[1].id # prs[2].id

\* ---- the popup (SpecPopup)
Rendered == dots # <<>>

\* C28 as stated: the dot is green exactly for checks success or unknown with an
\* approved review, red exactly for checks failure with a review not approved,
\* yellow otherwise.
RedOnlyOnFailedChecks ==
    Rendered =>
        \A i \in 1..Len(cards) :
            LET check == cards[i].checks.status
                review == cards[i].reviews.status
            IN /\ dots[i] = "status-green"
                     <=> (check \in {"success", "unknown"} /\ review = "approved")
               /\ dots[i] = "status-red"
                     <=> (check = "failure" /\ review # "approved")
               /\ dots[i] \in {"status-green", "status-red", "status-yellow"}

\* C28: the dot is green exactly for checks success or unknown with an approved
\* review, red exactly for checks failure or pending with a review not approved,
\* and yellow in the remaining cases: checks success or unknown with a review not
\* approved, and checks failure or pending with an approved review.
RedWhenChecksAndReviewBothUnmet ==
    Rendered =>
        \A i \in 1..Len(cards) :
            LET check == cards[i].checks.status
                review == cards[i].reviews.status
            IN /\ dots[i] = "status-green"
                     <=> (check \in {"success", "unknown"} /\ review = "approved")
               /\ dots[i] = "status-red"
                     <=> (check \in {"failure", "pending"} /\ review # "approved")
               /\ dots[i] = "status-yellow"
                     <=> (check \in {"success", "unknown"}) # (review = "approved")

PendingChecksWithoutApproval ==
    /\ Rendered
    /\ Len(cards) = 2
    /\ cards[1].checks.status = "pending" /\ cards[1].reviews.status = "pending"
    /\ dots[1] = "status-red"
    /\ cards[2].checks.status = "failure" /\ cards[2].reviews.status = "approved"
    /\ dots[2] = "status-yellow"

\* =================================================================
\* Properties of the onboarding wizard (SpecOnboarding)
\* =================================================================
SetupRan == setup.pc \in {"failed", "complete"}

\* C29: once completeSetup has run with a validated provider, the provider
\* configuration and the wizard's settings are stored, PROVIDER_CONFIGURED was
\* sent to the service worker, and the wizard shows the success screen, not
\* the error state
CompleteSetupStartsMonitoring ==
    (SetupRan /\ providerData # NoConfig) =>
        /\ storedProvider = providerData
        /\ \A key \in DOMAIN onboardingSettings : key \in DOMAIN settings
        /\ Includes(sentMessages, "PROVIDER_CONFIGURED")
        /\ setup.pc = "complete"
        /\ errorMessage # SetupFailedMessage

\* what one step of the wizard does to currentStep
WizardStepMove ==
    /\ NextStep =>
          currentStep' = IF currentStep = LastStep THEN currentStep ELSE currentStep + 1
    /\ PrevStep =>
          currentStep' = IF currentStep = 1 THEN currentStep ELSE currentStep - 1
    /\ (~NextStep /\ ~PrevStep) => currentStep' = currentStep

\* C38: after any sequence of next-step and previous-step actions from step 1,
\* currentStep stays within 1..4; next-step at step 4 and previous-step at step 1
\* leave it unchanged, every other next-step or previous-step changes it by
\* exactly one, and exactly the steps below currentStep are marked completed
WizardStepMachine ==
    /\ [](currentStep \in 1..4 /\ completedSteps = {s \in 1..4 : s < currentStep})
    /\ [][WizardStepMove]_vars

\* the wizard is back on step 1 after the display mode was chosen on step 4
BackOnFirstStepAfterLast ==
    /\ currentStep = 1
    /\ completedSteps = {}
    /\ onboardingSettings.displayMode = "fullpage"

\* =================================================================
\* Properties of repeated calls (SpecCalls)
\* =================================================================
SameCall(a, b) == a.fn = b.fn /\ a.args = b.args

MessagePending(c) == \E t \in tasks : t.cycle = c /\ t.kind \in MessageTypes

\* the step that answers a REFRESH_PRS message ends its handler after the cycle
\* finished: after the badge update, in the catch block, or with nothing to
\* fetch; a message of an unknown type is answered with the error object
AnswerStep ==
    /\ \A t \in tasks :
          (t.kind = "REFRESH_PRS" /\ response' # response /\ response'.to = t.cycle) =>
              /\ SuccessorOf(t) = {}
              /\ \/ t.pc = "badge"
                 \/ t.cycle \in failed'
                 \/ t.pc = "fc_init" /\ storedProvider = NoConfig
    /\ UnknownMessageReceived => response'.value = "error"

\* C37: every message sent to the service worker eventually receives a
\* response: for PROVIDER_CONFIGURED, REFRESH_PRS, GET_PRS, UPDATE_SETTINGS,
\* SETTINGS_UPDATED and unknown types sendResponse is eventually called (with an
\* error object for unknown types), also when the stored provider type is
\* unknown or the cycle fails; REFRESH_PRS is answered only after its cycle
\* has finished
EveryMessageAnswered ==
    /\ \A c \in CycleIds : MessagePending(c) ~> (response.to = c)
    /\ [][AnswerStep]_vars

=============================================================================
